---------------------------- MODULE Spec2Model ----------------------------
(***************************************************************************)
(* A model of the Offer-Scanner application's geocoding cache              *)
(* (src/services/geminiService.ts) and of the feed's filter pipeline       *)
(* (Feed.filteredOffers, held in src/components/Toaster.tsx).              *)
(*                                                                         *)
(* Conventions.                                                            *)
(*  - A JavaScript string is a sequence of one-character strings.          *)
(*  - A JavaScript value is a record with a field t (its typeof/kind).     *)
(*  - A coordinate (a JavaScript number of degrees) is an integer count of *)
(*    ten-thousandths of a degree, so 1.2344 is 12344.                     *)
(*  - Date.now() is the variable now, in milliseconds.                     *)
(***************************************************************************)
EXTENDS Integers, Sequences, FiniteSets, TLC

VARIABLES
    now,              \* Date.now(), ms
    cache,            \* the module-level Map: key -> [value, expiry]
    store,            \* localStorage items under the cache prefix: item key -> text
    storageAvailable, \* FALSE: every localStorage access throws (storage disabled)
    inflight,         \* lookups suspended at their await of ai.models.generateContent
    lastOp,           \* what the last step did and returned (observation)
    setLog,           \* history: per key, the last setInCache of this process
    lookup,           \* the exported lookup this session's caller uses
    calls,            \* number of lookups started
    ticks,            \* number of clock advances
    offers,           \* Feed's prop offers (App's state, newest first)
    today,            \* the local calendar date new Date() gives this session
    searchQuery,      \* Feed's state searchQuery
    activeFilter,     \* Feed's state activeFilter
    filterCenterPoint, \* Feed's prop filterCenterPoint
    filteredOffers,   \* the value of the useMemo at lines 365-422
    locationQuery,    \* App's state locationQuery (the location field)
    showSuggestions,  \* App's state showSuggestions (the dropdown is open)
    isLocating,       \* App's state isLocating
    userLocation,     \* App's state userLocation: null or { lat, lng, name }
    suggestions,      \* App's state suggestions
    isFetchingSuggestions, \* App's state isFetchingSuggestions
    debouncedSuggestionQuery, \* useDebounce(locationQuery, 300)
    debouncedGeocodeQuery,    \* useDebounce(locationQuery, 1000)
    timers,           \* pending setTimeout handlers of the two useDebounce hooks
    awaiting,         \* lookups of App suspended at an await
    geolocation,      \* progress of the getCurrentPosition request made on mount
    sinceChange,      \* ms since locationQuery last changed, up to the longest delay
    lastEvent,        \* what the last step of App did (observation): a suggestion
                      \* selected, the field cleared, a timeout of a hook, an
                      \* await resumed, or another step
    scannerOpen,      \* OfferForm's state isScannerOpen: a Scanner is mounted
    instance,         \* the number of Scanner instances mounted so far
    stream,           \* Scanner's state stream: 0 (null) or a MediaStream
    capturedImage,    \* Scanner's state capturedImage: null or a data URL
    isLoading,        \* Scanner's state isLoading
    error,            \* Scanner's state error: null or a message
    cameraRequests,   \* getUserMedia calls awaited, each with its instance
    reads,            \* FileReader reads in progress, each with its instance and
                      \* the stream of the render that started it
    analyses,         \* analyzeOfferImage calls awaited by handleProcess
    liveStreams,      \* the streams whose tracks have not been stopped
    streamCount,      \* the number of streams getUserMedia has given
    lastScan,         \* what the last step of the scanner did (observation)
    currentUser,      \* App's state currentUser: null or { email }
    savedOfferIds,    \* App's state savedOfferIds
    appItems,         \* localStorage items of App: key -> text
    currentView,      \* App's state currentView
    added,            \* the number of offers that addOffer has created
    lastApp           \* what the last step of the account did (observation)

cacheVars ==
    <<now, cache, store, storageAvailable, inflight, lastOp, setLog, lookup, calls, ticks>>

feedVars ==
    <<offers, today, searchQuery, activeFilter, filterCenterPoint, filteredOffers>>

\* filterCenterPoint is App's state too: Feed receives it as a prop
locationVars ==
    <<locationQuery, showSuggestions, isLocating, userLocation, suggestions,
      isFetchingSuggestions, debouncedSuggestionQuery, debouncedGeocodeQuery,
      timers, awaiting, geolocation, sinceChange, lastEvent>>

scannerVars ==
    <<scannerOpen, instance, stream, capturedImage, isLoading, error,
      cameraRequests, reads, analyses, liveStreams, streamCount, lastScan>>

\* offers is App's state too
accountVars == <<currentUser, savedOfferIds, appItems, currentView, added, lastApp>>

vars == <<cacheVars, feedVars, locationVars, scannerVars, accountVars>>

-----------------------------------------------------------------------------
(* Bounds of the model *)

MaxCalls == 2

MaxTicks == 2

MaxInFlight == 2

MaxOffers == 2

\* Milliseconds that pass while the account is in use
MaxClock == 1

MaxAwaiting == 2

MaxTimers == 3

MaxMounts == 2

MaxStreams == 2

MaxPending == 2

-----------------------------------------------------------------------------
(* JavaScript strings *)

UpperCase == <<"A","B","C","D","E","F","G","H","I","J","K","L","M",
               "N","O","P","Q","R","S","T","U","V","W","X","Y","Z">>

LowerCase == <<"a","b","c","d","e","f","g","h","i","j","k","l","m",
               "n","o","p","q","r","s","t","u","v","w","x","y","z">>

Digits == <<"0","1","2","3","4","5","6","7","8","9">>

ToLowerChar(c) ==
    IF \E i \in DOMAIN UpperCase : UpperCase[i] = c
    THEN LowerCase[CHOOSE i \in DOMAIN UpperCase : UpperCase[i] = c]
    ELSE c

\* String.prototype.toLowerCase
toLowerCase(s) == [i \in 1..Len(s) |-> ToLowerChar(s[i])]

IsWhiteSpace(c) == c \in {" ", "\t", "\n"}

RECURSIVE trimStart(_)
trimStart(s) ==
    IF s # <<>> /\ IsWhiteSpace(Head(s)) THEN trimStart(Tail(s)) ELSE s

RECURSIVE trimEnd(_)
trimEnd(s) ==
    IF s # <<>> /\ IsWhiteSpace(s[Len(s)])
    THEN trimEnd(SubSeq(s, 1, Len(s) - 1))
    ELSE s

\* String.prototype.trim
trim(s) == trimEnd(trimStart(s))

\* String.prototype.includes
includes(s, q) ==
    \E i \in 0..(Len(s) - Len(q)) : SubSeq(s, i + 1, i + Len(q)) = q

RECURSIVE IntToString(_)
IntToString(n) ==
    IF n < 10 THEN <<Digits[n + 1]>>
    ELSE IntToString(n \div 10) \o <<Digits[(n % 10) + 1]>>

\* Number.prototype.toFixed(2) of a coordinate x (ten-thousandths of a degree):
\* the sign is taken from x before rounding ("If x < 0, then set s to "-" and
\* x to -x"), then n is the integer with n / 100 closest to x, the larger on a tie.
toFixed2(x) ==
    LET s == IF x < 0 THEN <<"-">> ELSE <<>>
        a == IF x < 0 THEN -x ELSE x
        n == (a + 50) \div 100
    IN  s \o IntToString(n \div 100) \o <<".">>
          \o <<Digits[((n % 100) \div 10) + 1], Digits[(n % 10) + 1]>>

\* The decimal text of a coordinate x as template interpolation prints it is
\* not needed by the cache: only the prompt uses it.

-----------------------------------------------------------------------------
(* JavaScript values *)

Null == [t |-> "null"]

Undefined == [t |-> "undefined"]

Str(s) == [t |-> "string", s |-> s]

Num(n) == [t |-> "number", n |-> n]

\* The number NaN
NaN == [t |-> "nan"]

isNaN(v) == v.t = "nan"

Arr(items) == [t |-> "array", items |-> items]

\* An object: props is a function from property names to values
Obj(props) == [t |-> "object", props |-> props]

\* Property read o.f: undefined for a missing property. (A read on null or
\* undefined throws; callers test CanRead first.)
Get(o, f) ==
    IF o.t = "object" /\ f \in DOMAIN o.props THEN o.props[f] ELSE Undefined

CanRead(o) == o.t \notin {"null", "undefined"}

\* ToBoolean
Truthy(v) ==
    CASE v.t \in {"null", "undefined", "nan"} -> FALSE
      [] v.t = "string" -> v.s # <<>>
      [] v.t = "number" -> v.n # 0
      [] OTHER -> TRUE

\* a || b
OrElse(a, b) == IF Truthy(a) THEN a ELSE b

\* A text handed to JSON.parse, kept as the value it denotes; valid = FALSE is
\* a text that is not JSON.
JsonText(v) == [t |-> "text", valid |-> TRUE, json |-> v]

NotJson == [t |-> "text", valid |-> FALSE, json |-> Undefined]

\* JSON.stringify: an object's properties whose value is undefined are dropped
JSONstringify(v) ==
    IF v.t = "object"
    THEN JsonText(Obj([f \in {g \in DOMAIN v.props : v.props[g].t # "undefined"}
                         |-> v.props[f]]))
    ELSE JsonText(v)

\* JSON.parse: throws a SyntaxError on a text that is not JSON
JSONparse(text) ==
    IF text.valid THEN [threw |-> FALSE, value |-> text.json]
    ELSE [threw |-> TRUE, value |-> Undefined]

-----------------------------------------------------------------------------
(* The two-tier cache: geminiService.ts lines 4-57 *)

CACHE_TTL == 5 * 60 * 1000

LOCAL_STORAGE_CACHE_PREFIX ==
    <<"g","e","m","i","n","i","_","a","p","i","_","c","a","c","h","e","_">>

\* The localStorage item key of a cache key
ItemKey(key) == LOCAL_STORAGE_CACHE_PREFIX \o key

\* f with x removed from its domain (Map.delete, Storage.removeItem)
Without(f, x) == [y \in DOMAIN f \ {x} |-> f[y]]

\* f with x bound to v (Map.set, Storage.setItem)
With(f, x, v) == [y \in DOMAIN f \cup {x} |-> IF y = x THEN v ELSE f[y]]

Empty == [x \in {} |-> Null]

\* getFromLocalStorage with a promotion that restarts the TTL
getFromLocalStorage_RenewsExpiry(c, key) ==
    IF ~storageAvailable \/ ItemKey(key) \notin DOMAIN store
    THEN [ret |-> Null, cache |-> c, store |-> store, durableRead |-> TRUE]
    ELSE LET localEntry == JSONparse(store[ItemKey(key)])
         IN  IF Get(localEntry.value, "expiry").n > now
             THEN [ret |-> Get(localEntry.value, "value"),
                   cache |-> With(c, key, [value  |-> Get(localEntry.value, "value"),
                                           expiry |-> now + CACHE_TTL]),
                   store |-> store, durableRead |-> TRUE]
             ELSE [ret |-> Null, cache |-> c,
                   store |-> Without(store, ItemKey(key)), durableRead |-> TRUE]

\* getFromLocalStorage with a sweep: every expired item is removed, not only
\* the one that is read
getFromLocalStorage_SweepsExpired(c, key) ==
    LET unexpired == {ik \in DOMAIN store :
                        Get(JSONparse(store[ik]).value, "expiry").n > now}
        swept == [ik \in unexpired |-> store[ik]]
    IN  IF ~storageAvailable
        THEN [ret |-> Null, cache |-> c, store |-> store, durableRead |-> TRUE]
        ELSE IF ItemKey(key) \notin DOMAIN swept
        THEN [ret |-> Null, cache |-> c, store |-> swept, durableRead |-> TRUE]
        ELSE LET localEntry == JSONparse(store[ItemKey(key)])
             IN  [ret |-> Get(localEntry.value, "value"),
                  cache |-> With(c, key, [value  |-> Get(localEntry.value, "value"),
                                          expiry |-> Get(localEntry.value, "expiry").n]),
                  store |-> swept, durableRead |-> TRUE]

\* The try block of getFromCache, lines 24-35, entered with the in-memory Map c
\* (the expired entry, if any, already deleted). A throw of getItem is caught
\* at line 36 and the function falls through to return null.
getFromLocalStorage(c, key) ==
    IF ~storageAvailable
    THEN [ret |-> Null, cache |-> c, store |-> store, durableRead |-> TRUE]
    ELSE IF ItemKey(key) \notin DOMAIN store
    THEN [ret |-> Null, cache |-> c, store |-> store, durableRead |-> TRUE]
    ELSE LET localEntry == JSONparse(store[ItemKey(key)])
         IN  IF localEntry.threw
             THEN [ret |-> Null, cache |-> c, store |-> store, durableRead |-> TRUE]
             ELSE IF Get(localEntry.value, "expiry").n > now
             THEN [ret |-> Get(localEntry.value, "value"),
                   cache |-> With(c, key, [value  |-> Get(localEntry.value, "value"),
                                           expiry |-> Get(localEntry.value, "expiry").n]),
                   store |-> store, durableRead |-> TRUE]
             ELSE [ret |-> Null, cache |-> c,
                   store |-> Without(store, ItemKey(key)), durableRead |-> TRUE]

\* getFromCache with an in-memory entry still served at its expiry time
getFromCache_ExpiryInclusive(key) ==
    IF key \in DOMAIN cache /\ cache[key].expiry >= now
    THEN [ret |-> cache[key].value, cache |-> cache, store |-> store,
          durableRead |-> FALSE]
    ELSE getFromLocalStorage(IF key \in DOMAIN cache THEN Without(cache, key) ELSE cache,
                             key)

\* getFromCache(key): the value returned and the two layers afterwards.
\* durableRead records whether line 24 (localStorage.getItem) was executed.
getFromCache(key) ==
    IF key \in DOMAIN cache /\ cache[key].expiry > now
    THEN [ret |-> cache[key].value, cache |-> cache, store |-> store,
          durableRead |-> FALSE]
    ELSE getFromLocalStorage(IF key \in DOMAIN cache THEN Without(cache, key) ELSE cache,
                             key)

\* setInCache with the durable write first, so that its failure skips the
\* in-memory write
setInCache_DurableFirst(key, value, quota) ==
    LET expiry == now + CACHE_TTL
        localEntry == Obj([value |-> value, expiry |-> Num(expiry)])
        written == storageAvailable /\ ~quota
    IN  [cache |-> IF written
                   THEN With(cache, key, [value |-> value, expiry |-> expiry])
                   ELSE cache,
         store |-> IF written
                   THEN With(store, ItemKey(key), JSONstringify(localEntry))
                   ELSE store,
         durableWritten |-> written]

\* setInCache that leaves an in-memory entry of the key as it is and writes
\* the durable one
setInCache_KeepsMemoryEntry(key, value, quota) ==
    LET expiry == now + CACHE_TTL
        localEntry == Obj([value |-> value, expiry |-> Num(expiry)])
        written == storageAvailable /\ ~quota
    IN  [cache |-> IF key \in DOMAIN cache THEN cache
                   ELSE With(cache, key, [value |-> value, expiry |-> expiry]),
         store |-> IF written
                   THEN With(store, ItemKey(key), JSONstringify(localEntry))
                   ELSE store,
         durableWritten |-> written]

\* setInCache(key, value): the two layers afterwards. quota: setItem throws
\* (storage full); the throw is caught at line 53.
setInCache(key, value, quota) ==
    LET expiry == now + CACHE_TTL
        localEntry == Obj([value |-> value, expiry |-> Num(expiry)])
        written == storageAvailable /\ ~quota
    IN  [cache |-> With(cache, key, [value |-> value, expiry |-> expiry]),
         store |-> IF written
                   THEN With(store, ItemKey(key), JSONstringify(localEntry))
                   ELSE store,
         durableWritten |-> written]

-----------------------------------------------------------------------------
(* The lookups: geminiService.ts lines 125-212 *)

\* `reverse-geocode:${coords.lat.toFixed(2)},${coords.lng.toFixed(2)}`
reverseGeocodeKey(coords) ==
    <<"r","e","v","e","r","s","e","-","g","e","o","c","o","d","e",":">>
        \o toFixed2(coords.lat) \o <<",">> \o toFixed2(coords.lng)

\* `suggestions:${query.toLowerCase()}`
suggestionsKey(query) ==
    <<"s","u","g","g","e","s","t","i","o","n","s",":">> \o toLowerCase(query)

\* geocodeKey without the lower-casing
geocodeKey_CaseSensitive(address) ==
    <<"g","e","o","c","o","d","e",":">> \o address

\* `geocode:${address.toLowerCase()}`
geocodeKey(address) ==
    <<"g","e","o","c","o","d","e",":">> \o toLowerCase(address)

\* What the body of a lookup's try block ends with
Threw == [threw |-> TRUE, ret |-> Undefined, set |-> FALSE, value |-> Undefined]

Returned(r) == [threw |-> FALSE, ret |-> r, set |-> FALSE, value |-> Undefined]

ReturnedAfterSet(r, v) == [threw |-> FALSE, ret |-> r, set |-> TRUE, value |-> v]

\* await ai.models.generateContent(...); response.text.trim(); JSON.parse(jsonString).
\* The promise may reject, and response.text may be undefined (trim then throws).
parseResponse(resp) ==
    IF resp.rejects \/ resp.text.t = "undefined"
    THEN [threw |-> TRUE, value |-> Undefined]
    ELSE JSONparse(resp.text)

\* reverseGeocode, the try block (lines 133-147)
reverseGeocodeTry(resp) ==
    LET parsed == parseResponse(resp)
    IN  IF parsed.threw \/ ~CanRead(parsed.value) THEN Threw
        ELSE LET locationName == OrElse(Get(parsed.value, "locationName"), Null)
             IN  IF Truthy(locationName)
                 THEN ReturnedAfterSet(locationName, locationName)
                 ELSE Returned(locationName)

\* reverseGeocode after its await: the catch at line 148 returns null
reverseGeocodeResult(resp) ==
    IF reverseGeocodeTry(resp).threw THEN Returned(Null) ELSE reverseGeocodeTry(resp)

\* getLocationSuggestions, the try block (lines 165-177)
getLocationSuggestionsTry(resp) ==
    LET parsed == parseResponse(resp)
    IN  IF parsed.threw \/ ~CanRead(parsed.value) THEN Threw
        ELSE LET found == OrElse(Get(parsed.value, "suggestions"), Arr(<<>>))
             IN  ReturnedAfterSet(found, found)

\* getLocationSuggestions without its catch
getLocationSuggestionsResult_NoCatch(resp) == getLocationSuggestionsTry(resp)

\* getLocationSuggestions after its await: the catch at line 178 returns []
getLocationSuggestionsResult(resp) ==
    IF getLocationSuggestionsTry(resp).threw THEN Returned(Arr(<<>>))
    ELSE getLocationSuggestionsTry(resp)

\* geocodeLocation, the try block (lines 193-207)
geocodeLocationTry(resp) ==
    LET parsed == parseResponse(resp)
    IN  IF parsed.threw \/ ~CanRead(parsed.value) THEN Threw
        ELSE IF Get(parsed.value, "lat").t = "number" /\ Get(parsed.value, "lng").t = "number"
        THEN ReturnedAfterSet(parsed.value, parsed.value)
        ELSE Returned(Null)

\* geocodeLocation that stores the null of a failed or unusable answer
geocodeLocationResult_CachesFailure(resp) ==
    IF geocodeLocationTry(resp).set THEN geocodeLocationTry(resp)
    ELSE ReturnedAfterSet(Null, Null)

\* geocodeLocation after its await: the catch at line 208 returns null
geocodeLocationResult(resp) ==
    IF geocodeLocationTry(resp).threw THEN Returned(Null) ELSE geocodeLocationTry(resp)

-----------------------------------------------------------------------------
(* Inputs and the external service's answers *)

\* (0.001, 5.678), (0.0044, 5.6789), (-0.001, 5.678): the first two differ
\* beyond the second decimal only, the third rounds to a latitude of zero too
CoordInputs ==
    { [lat |-> 10, lng |-> 56780], [lat |-> 44, lng |-> 56789],
      [lat |-> -10, lng |-> 56780] }

\* "NYC", "nyc", "ny", " "
TextInputs ==
    { <<"N","Y","C">>, <<"n","y","c">>, <<"n","y">>, <<" ">> }

QueryInputs == TextInputs \ { <<" ">> }

AddressInputs == TextInputs \ { <<"n","y">> }

Coords(c) == Obj([lat |-> Num(c.lat), lng |-> Num(c.lng)])

Rejected == [rejects |-> TRUE, text |-> Undefined]

NoText == [rejects |-> FALSE, text |-> Undefined]

Unparsable == [rejects |-> FALSE, text |-> NotJson]

Answer(v) == [rejects |-> FALSE, text |-> JsonText(v)]

\* The call rejects, response.text is undefined, the text is not JSON, or it is
\* the JSON text null
FailureResponses == {Rejected, NoText, Unparsable, Answer(Null)}

ReverseResponses ==
    FailureResponses \cup
    { Answer(Obj(Empty)),
      Answer(Obj([locationName |-> Str(<<>>)])),
      Answer(Obj([locationName |-> Str(<<"A","b">>)])) }

SuggestionResponses ==
    FailureResponses \cup
    { Answer(Obj(Empty)),
      Answer(Obj([suggestions |-> Arr(<<>>)])),
      Answer(Obj([suggestions |-> Arr(<< <<"N","y","c">> >>)])) }

GeocodeResponses ==
    FailureResponses \cup
    { Answer(Obj([lat |-> Num(407000)])),
      Answer(Obj([lat |-> Str(<<"x">>), lng |-> Num(-740000)])),
      Answer(Obj([lat |-> Num(407000), lng |-> Num(-740000)])) }

\* The clock advances by 1 ms or by one ms less than the TTL
TickSteps == {1, CACHE_TTL - 1}

\* The clock at module load
Start == CACHE_TTL

\* What an earlier session of the program may have left in localStorage: items
\* written by setInCache, hence with an expiry of at most load time + TTL.
PriorExpiries == {Start, Start + 1, Start + CACHE_TTL - 1}

PriorItem(value, expiry) ==
    JSONstringify(Obj([value |-> value, expiry |-> Num(expiry)]))

\* At most one item, a geocodeLocation result for "nyc"
PriorStores ==
    {Empty} \cup
    { [k \in {ItemKey(geocodeKey(<<"n","y","c">>))} |->
          PriorItem(Obj([lat |-> Num(407100), lng |-> Num(-740100)]), e)] :
        e \in PriorExpiries }

\* The responseSchema of each lookup (lines 95-122): the required property and
\* its type
Conforms(fn, v) ==
    /\ v.t = "object"
    /\ CASE fn = "reverseGeocode" -> Get(v, "locationName").t = "string"
         [] fn = "getLocationSuggestions" -> Get(v, "suggestions").t = "array"
         [] fn = "geocodeLocation" ->
               Get(v, "lat").t = "number" /\ Get(v, "lng").t = "number"

\* An external call's outcome as the caller sees it: "failed" (the call rejects,
\* there is no text, or the text is not the JSON of an object), "malformed" (an
\* object that does not conform to the schema), "conforming"
ResponseClass(fn, resp) ==
    IF resp \in FailureResponses THEN "failed"
    ELSE IF Conforms(fn, resp.text.json) THEN "conforming"
    ELSE "malformed"

-----------------------------------------------------------------------------
(* State machine of the cache and the lookups.                              *)
(* A behaviour is one process, from module load on, whose caller uses one  *)
(* of the three exported lookups (the variable lookup): the keys of the    *)
(* three carry different prefixes, so no lookup reads or writes an entry   *)
(* of another.                                                             *)

NoOp ==
    [op |-> "none", phase |-> "none", arg |-> Undefined, key |-> <<>>,
     cacheRead |-> FALSE, got |-> Undefined, durableRead |-> FALSE,
     external |-> FALSE, outcome |-> "none", ret |-> Undefined,
     resp |-> "none", set |-> FALSE, durableWritten |-> FALSE]

InitCache ==
    /\ now = Start
    /\ cache = Empty
    /\ storageAvailable \in BOOLEAN
    /\ store \in (IF storageAvailable THEN PriorStores ELSE {Empty})
    /\ inflight = <<>>
    /\ lastOp = NoOp
    /\ setLog = Empty
    /\ lookup \in {"reverseGeocode", "getLocationSuggestions", "geocodeLocation"}
    /\ calls = 0
    /\ ticks = 0

\* Time passes
Tick(d) ==
    /\ ticks < MaxTicks
    /\ now' = now + d
    /\ ticks' = ticks + 1
    /\ lastOp' = [NoOp EXCEPT !.op = "tick"]
    /\ UNCHANGED <<cache, store, storageAvailable, inflight, setLog, lookup, calls>>
    /\ UNCHANGED <<feedVars, locationVars, scannerVars, accountVars>>

\* A lookup returns before its first await without touching the cache
ReturnEarly(fn, arg, r) ==
    /\ lastOp' = [NoOp EXCEPT !.op = fn, !.phase = "call", !.arg = arg,
                              !.outcome = "return", !.ret = r]
    /\ UNCHANGED <<cache, store, inflight>>

\* The part of a lookup from getFromCache to its return of the cached value or
\* to its await of the external call
Lookup(fn, arg, key) ==
    LET cached == getFromCache(key)
    IN  /\ cache' = cached.cache
        /\ store' = cached.store
        /\ IF Truthy(cached.ret)
           THEN /\ inflight' = inflight
                /\ lastOp' = [NoOp EXCEPT !.op = fn, !.phase = "call", !.arg = arg,
                                !.key = key, !.cacheRead = TRUE, !.got = cached.ret,
                                !.durableRead = cached.durableRead,
                                !.outcome = "return", !.ret = cached.ret]
           ELSE /\ Len(inflight) < MaxInFlight
                /\ inflight' = Append(inflight, [fn |-> fn, arg |-> arg, key |-> key])
                /\ lastOp' = [NoOp EXCEPT !.op = fn, !.phase = "call", !.arg = arg,
                                !.key = key, !.cacheRead = TRUE, !.got = cached.ret,
                                !.durableRead = cached.durableRead,
                                !.external = TRUE, !.outcome = "pending"]

\* reverseGeocode(coords) up to its await (lines 125-133)
reverseGeocodeCall(coords) ==
    /\ lookup = "reverseGeocode"
    /\ calls < MaxCalls
    /\ calls' = calls + 1
    /\ Lookup("reverseGeocode", Coords(coords), reverseGeocodeKey(coords))
    /\ UNCHANGED <<now, storageAvailable, setLog, lookup, ticks>>
    /\ UNCHANGED <<feedVars, locationVars, scannerVars, accountVars>>

\* getLocationSuggestions that looks up every query of two characters or more
getLocationSuggestionsCall_TwoCharacters(query) ==
    /\ lookup = "getLocationSuggestions"
    /\ calls < MaxCalls
    /\ calls' = calls + 1
    /\ IF Len(trim(query)) < 2
       THEN ReturnEarly("getLocationSuggestions", Str(query), Arr(<<>>))
       ELSE Lookup("getLocationSuggestions", Str(query), suggestionsKey(query))
    /\ UNCHANGED <<now, storageAvailable, setLog, lookup, ticks>>
    /\ UNCHANGED <<feedVars, locationVars, scannerVars, accountVars>>

\* getLocationSuggestions(query) up to its await (lines 154-165)
getLocationSuggestionsCall(query) ==
    /\ lookup = "getLocationSuggestions"
    /\ calls < MaxCalls
    /\ calls' = calls + 1
    /\ IF Len(trim(query)) < 3
       THEN ReturnEarly("getLocationSuggestions", Str(query), Arr(<<>>))
       ELSE Lookup("getLocationSuggestions", Str(query), suggestionsKey(query))
    /\ UNCHANGED <<now, storageAvailable, setLog, lookup, ticks>>
    /\ UNCHANGED <<feedVars, locationVars, scannerVars, accountVars>>

\* geocodeLocation(address) up to its await (lines 185-193)
geocodeLocationCall(address) ==
    /\ lookup = "geocodeLocation"
    /\ calls < MaxCalls
    /\ calls' = calls + 1
    /\ IF ~Truthy(Str(trim(address)))
       THEN ReturnEarly("geocodeLocation", Str(address), Null)
       ELSE Lookup("geocodeLocation", Str(address), geocodeKey(address))
    /\ UNCHANGED <<now, storageAvailable, setLog, lookup, ticks>>
    /\ UNCHANGED <<feedVars, locationVars, scannerVars, accountVars>>

RemoveAt(q, i) == SubSeq(q, 1, i - 1) \o SubSeq(q, i + 1, Len(q))

\* A suspended lookup continues with the external call's outcome resp: r is what
\* the rest of the function does, quota whether localStorage.setItem throws.
Resume(i, resp, r, quota) ==
    LET call == inflight[i]
        after == IF r.set THEN setInCache(call.key, r.value, quota)
                 ELSE [cache |-> cache, store |-> store, durableWritten |-> FALSE]
    IN  /\ inflight' = RemoveAt(inflight, i)
        /\ cache' = after.cache
        /\ store' = after.store
        /\ setLog' = IF r.set
                     THEN With(setLog, call.key,
                               [value |-> r.value, time |-> now, fn |-> call.fn,
                                arg |-> call.arg, durableWritten |-> after.durableWritten])
                     ELSE setLog
        /\ lastOp' = [NoOp EXCEPT !.op = call.fn, !.phase = "resume", !.arg = call.arg,
                        !.key = call.key, !.resp = ResponseClass(call.fn, resp), !.set = r.set,
                        !.durableWritten = after.durableWritten,
                        !.outcome = IF r.threw THEN "throw" ELSE "return",
                        !.ret = r.ret]
        /\ UNCHANGED <<now, storageAvailable, lookup, calls, ticks>>
        /\ UNCHANGED <<feedVars, locationVars, scannerVars, accountVars>>

\* reverseGeocode from its await on (lines 133-151)
reverseGeocodeResume(i, resp, quota) ==
    /\ i \in DOMAIN inflight
    /\ inflight[i].fn = "reverseGeocode"
    /\ quota \in (IF reverseGeocodeResult(resp).set /\ storageAvailable
                  THEN BOOLEAN ELSE {FALSE})
    /\ Resume(i, resp, reverseGeocodeResult(resp), quota)

\* getLocationSuggestions from its await on (lines 165-181)
getLocationSuggestionsResume(i, resp, quota) ==
    /\ i \in DOMAIN inflight
    /\ inflight[i].fn = "getLocationSuggestions"
    /\ quota \in (IF getLocationSuggestionsResult(resp).set /\ storageAvailable
                  THEN BOOLEAN ELSE {FALSE})
    /\ Resume(i, resp, getLocationSuggestionsResult(resp), quota)

\* geocodeLocation from its await on (lines 193-211)
geocodeLocationResume(i, resp, quota) ==
    /\ i \in DOMAIN inflight
    /\ inflight[i].fn = "geocodeLocation"
    /\ quota \in (IF geocodeLocationResult(resp).set /\ storageAvailable
                  THEN BOOLEAN ELSE {FALSE})
    /\ Resume(i, resp, geocodeLocationResult(resp), quota)

NextCache ==
    \/ \E d \in TickSteps : Tick(d)
    \/ \E c \in CoordInputs : reverseGeocodeCall(c)
    \/ \E q \in QueryInputs : getLocationSuggestionsCall(q)
    \/ \E a \in AddressInputs : geocodeLocationCall(a)
    \/ \E i \in 1..MaxInFlight, resp \in ReverseResponses, quota \in BOOLEAN :
          reverseGeocodeResume(i, resp, quota)
    \/ \E i \in 1..MaxInFlight, resp \in SuggestionResponses, quota \in BOOLEAN :
          getLocationSuggestionsResume(i, resp, quota)
    \/ \E i \in 1..MaxInFlight, resp \in GeocodeResponses, quota \in BOOLEAN :
          geocodeLocationResume(i, resp, quota)

\* The cache is exercised with no feed on screen
FeedUnmounted ==
    /\ offers = <<>>
    /\ today = [year |-> 2024, month |-> 6, day |-> 1]
    /\ searchQuery = <<>>
    /\ activeFilter = "all"
    /\ filterCenterPoint = [t |-> "null"]
    /\ filteredOffers = <<>>

\* No geocodeLocation lookup has settled in the step
NothingSettled == [arg |-> <<>>, result |-> Undefined]

\* The cache and the feed are exercised with the location field left alone
LocationIdle ==
    /\ locationQuery = <<>>
    /\ showSuggestions = FALSE
    /\ isLocating = FALSE
    /\ userLocation = [t |-> "null"]
    /\ suggestions = <<>>
    /\ isFetchingSuggestions = FALSE
    /\ debouncedSuggestionQuery = <<>>
    /\ debouncedGeocodeQuery = <<>>
    /\ timers = <<>>
    /\ awaiting = <<>>
    /\ geolocation = "settled"
    /\ sinceChange = 0
    /\ lastEvent = [event |-> "none", hook |-> "none", settled |-> NothingSettled]

\* The account is not looked at
AccountIdle ==
    /\ currentUser = Null
    /\ savedOfferIds = {}
    /\ appItems = Empty
    /\ currentView = "FEED"
    /\ added = 0
    /\ lastApp = [event |-> "none", threw |-> FALSE, loaded |-> Null, found |-> Null]

\* What the scanner's last step is before any step
NoScan == [event |-> "none", instance |-> 0, calls |-> <<>>, result |-> Undefined]

\* A step that is neither the end of an analysis nor the close button
OtherStep == [NoScan EXCEPT !.event = "step"]

\* No scanner is open
ScannerClosed ==
    /\ scannerOpen = FALSE
    /\ instance = 0
    /\ stream = 0
    /\ capturedImage = Null
    /\ isLoading = FALSE
    /\ error = Null
    /\ cameraRequests = <<>>
    /\ reads = <<>>
    /\ analyses = <<>>
    /\ liveStreams = {}
    /\ streamCount = 0
    /\ lastScan = NoScan

Init == InitCache /\ FeedUnmounted /\ LocationIdle /\ ScannerClosed /\ AccountIdle

Spec == Init /\ [][NextCache]_vars

-----------------------------------------------------------------------------
(* Properties of the cache and the lookups *)

FiveMinutes == 5 * 60 * 1000

\* The last step was a lookup that called getFromCache
IsCacheRead(op) == op.phase = "call" /\ op.cacheRead

\* The item of key k in the durable layer, as the object it denotes
StoredEntry(st, k) == st[ItemKey(k)].json.props

\* Neither layer holds an entry for k
InNeitherLayer(c, st, k) == k \notin DOMAIN c /\ ItemKey(k) \notin DOMAIN st

\* C1: getFromCache(k) after setInCache(k, v) at time t, with no other set on k
\* in between, returns v when called before t + 5 minutes; called at or after
\* t + 5 minutes it returns null and leaves no entry for k in either layer.
C1_GetAfterSet ==
    [][ (IsCacheRead(lastOp') /\ lastOp'.key \in DOMAIN setLog) =>
          IF now < setLog[lastOp'.key].time + FiveMinutes
          THEN lastOp'.got = setLog[lastOp'.key].value
          ELSE /\ lastOp'.got = Null
               /\ InNeitherLayer(cache', store', lastOp'.key) ]_vars

\* A read at or after the expiry of an entry that setInCache wrote to both layers
C1_Witness ==
    /\ IsCacheRead(lastOp)
    /\ lastOp.key \in DOMAIN setLog
    /\ setLog[lastOp.key].durableWritten
    /\ now = setLog[lastOp.key].time + FiveMinutes
    /\ lastOp.got = Null
    /\ InNeitherLayer(cache, store, lastOp.key)

\* C6: getFromCache returns an unexpired in-memory entry without reading the
\* durable layer; on an in-memory miss with an unexpired durable entry it returns
\* the durable value and leaves the in-memory layer holding that value with the
\* durable entry's expiry.
C6_MemoryFirstThenPromote ==
    [][ IsCacheRead(lastOp') =>
          LET k == lastOp'.key
              memoryHit == k \in DOMAIN cache /\ cache[k].expiry > now
              durableHit == /\ ItemKey(k) \in DOMAIN store
                            /\ StoredEntry(store, k).expiry.n > now
          IN  /\ memoryHit =>
                   lastOp'.got = cache[k].value /\ ~lastOp'.durableRead
              /\ (~memoryHit /\ durableHit) =>
                   /\ lastOp'.got = StoredEntry(store, k).value
                   /\ k \in DOMAIN cache'
                   /\ cache'[k] = [value  |-> StoredEntry(store, k).value,
                                   expiry |-> StoredEntry(store, k).expiry.n] ]_vars

\* A read that was served by the durable layer and promoted, after time has passed
C6_Witness ==
    /\ IsCacheRead(lastOp)
    /\ lastOp.durableRead
    /\ Truthy(lastOp.got)
    /\ now > Start
    /\ lastOp.key \in DOMAIN cache
    /\ cache[lastOp.key].expiry = StoredEntry(store, lastOp.key).expiry.n

\* C7: setInCache(k, v) at time t leaves (v, t + 5 minutes) in memory, and in the
\* durable layer when the durable write succeeds; when the durable write fails
\* the lookup still returns normally, and a read of k before t + 5 minutes in
\* the same process returns v.
C7_SetSurvivesDurableFailure ==
    [][ /\ (lastOp'.phase = "resume" /\ lastOp'.set) =>
              LET k == lastOp'.key
                  v == setLog'[k].value
              IN  /\ lastOp'.outcome = "return"
                  /\ k \in DOMAIN cache'
                  /\ cache'[k] = [value |-> v, expiry |-> now + FiveMinutes]
                  /\ lastOp'.durableWritten =>
                        /\ ItemKey(k) \in DOMAIN store'
                        /\ StoredEntry(store', k).value = v
                        /\ StoredEntry(store', k).expiry = Num(now + FiveMinutes)
        /\ ( /\ IsCacheRead(lastOp')
             /\ lastOp'.key \in DOMAIN setLog
             /\ ~setLog[lastOp'.key].durableWritten
             /\ now < setLog[lastOp'.key].time + FiveMinutes ) =>
              lastOp'.got = setLog[lastOp'.key].value ]_vars

\* A read, later and within the TTL, of a value whose durable write failed on a
\* full store
C7_Witness ==
    /\ IsCacheRead(lastOp)
    /\ lastOp.key \in DOMAIN setLog
    /\ storageAvailable
    /\ ~setLog[lastOp.key].durableWritten
    /\ now > setLog[lastOp.key].time
    /\ now < setLog[lastOp.key].time + FiveMinutes
    /\ lastOp.got = setLog[lastOp.key].value

\* Two texts that differ at most in the case of their letters
SameModuloCase(a, b) ==
    /\ Len(a) = Len(b)
    /\ \A i \in 1..Len(a) :
          \/ a[i] = b[i]
          \/ \E j \in DOMAIN UpperCase :
                {a[i], b[i]} = {UpperCase[j], LowerCase[j]}

\* An unexpired entry for k in the in-memory or the durable layer
UnexpiredEntry(k) ==
    \/ k \in DOMAIN cache /\ cache[k].expiry > now
    \/ ItemKey(k) \in DOMAIN store /\ StoredEntry(store, k).expiry.n > now

\* C8: a lookup never calls the external service when an unexpired entry for its
\* key exists in either layer; after a successful geocodeLocation(q) or
\* getLocationSuggestions(q), a later call within the TTL with a text that
\* differs from q only in letter case returns the stored result with no
\* external call.
C8_NoExternalCallOnHit ==
    [][ /\ (IsCacheRead(lastOp') /\ UnexpiredEntry(lastOp'.key)) =>
              ~lastOp'.external /\ inflight' = inflight /\ lastOp'.outcome = "return"
        /\ \A k \in DOMAIN setLog :
              ( /\ lastOp'.phase = "call"
                /\ lastOp'.op \in {"geocodeLocation", "getLocationSuggestions"}
                /\ setLog[k].fn = lastOp'.op
                /\ SameModuloCase(setLog[k].arg.s, lastOp'.arg.s)
                /\ now < setLog[k].time + FiveMinutes ) =>
                  /\ ~lastOp'.external
                  /\ inflight' = inflight
                  /\ lastOp'.ret = setLog[k].value ]_vars

\* A geocodeLocation served from the cache for a text that differs in case from
\* the text whose result was stored
C8_Witness ==
    /\ lastOp.phase = "call"
    /\ lastOp.op = "geocodeLocation"
    /\ lastOp.key \in DOMAIN setLog
    /\ setLog[lastOp.key].arg # lastOp.arg
    /\ ~lastOp.external
    /\ lastOp.ret = setLog[lastOp.key].value

\* A coordinate rounded to two decimals, as a number of hundredths of a degree
RoundToHundredths(x) ==
    IF x >= 0 THEN (x + 50) \div 100 ELSE 0 - ((0 - x + 50) \div 100)

\* C9: two coordinate pairs whose latitude and longitude round to the same
\* two-decimal values get the same cache key: the cached result of one is
\* returned for the other.
C9_RoundedCoordinatesShareEntry ==
    [][ \A k \in DOMAIN setLog :
          ( /\ lastOp'.phase = "call"
            /\ lastOp'.op = "reverseGeocode"
            /\ setLog[k].fn = "reverseGeocode"
            /\ RoundToHundredths(Get(setLog[k].arg, "lat").n)
                 = RoundToHundredths(Get(lastOp'.arg, "lat").n)
            /\ RoundToHundredths(Get(setLog[k].arg, "lng").n)
                 = RoundToHundredths(Get(lastOp'.arg, "lng").n)
            /\ now < setLog[k].time + FiveMinutes ) =>
              /\ lastOp'.key = k
              /\ ~lastOp'.external
              /\ lastOp'.ret = setLog[k].value ]_vars

-----------------------------------------------------------------------------
(* JavaScript numbers of the distance computation: decimal floating point    *)
(* with a mantissa of eight digits, value = s * m * 10^e, m = 0 or           *)
(* 10^7 <= m < 10^8. Results are truncated to eight digits.                  *)

Zero == [s |-> 1, m |-> 0, e |-> 0]

RECURSIVE FNorm(_, _, _)
FNorm(s, m, e) ==
    IF m = 0 THEN Zero
    ELSE IF m >= 10^8 THEN FNorm(s, m \div 10, e + 1)
    ELSE IF m < 10^7 THEN FNorm(s, m * 10, e - 1)
    ELSE [s |-> s, m |-> m, e |-> e]

\* a * b = q * c + r with 0 <= r < c, by the decimal digits of b (a, c < 10^8)
RECURSIVE MulDiv(_, _, _)
MulDiv(a, b, c) ==
    IF b = 0 THEN [q |-> 0, r |-> 0]
    ELSE LET p == MulDiv(a, b \div 10, c)
             t == 10 * p.r + a * (b % 10)
         IN  [q |-> 10 * p.q + t \div c, r |-> t % c]

FFromInt(n) == IF n < 0 THEN FNorm(-1, -n, 0) ELSE FNorm(1, n, 0)

FNeg(x) == IF x.m = 0 THEN Zero ELSE [x EXCEPT !.s = -x.s]

FMul(x, y) ==
    IF x.m = 0 \/ y.m = 0 THEN Zero
    ELSE FNorm(x.s * y.s, MulDiv(x.m, y.m, 10^7).q, x.e + y.e + 7)

FDiv(x, y) ==
    IF x.m = 0 THEN Zero
    ELSE FNorm(x.s * y.s, MulDiv(x.m, 10^8, y.m).q, x.e - y.e - 8)

\* x + y for x.e >= y.e: the digits of y below the last digit of x are dropped
FAddAligned(x, y) ==
    LET shift == x.e - y.e
        ym == IF shift > 8 THEN 0 ELSE y.m \div (10^shift)
        sum == x.s * x.m + y.s * ym
    IN  IF sum < 0 THEN FNorm(-1, -sum, x.e) ELSE FNorm(1, sum, x.e)

FAdd(x, y) ==
    IF x.m = 0 THEN y
    ELSE IF y.m = 0 THEN x
    ELSE IF x.e >= y.e THEN FAddAligned(x, y) ELSE FAddAligned(y, x)

FSub(x, y) == FAdd(x, FNeg(y))

\* x <= y
FLe(x, y) ==
    IF x.m = 0 THEN y.m = 0 \/ y.s = 1
    ELSE IF y.m = 0 THEN x.s = -1
    ELSE IF x.s # y.s THEN x.s = -1
    ELSE IF x.s = 1
         THEN x.e < y.e \/ (x.e = y.e /\ x.m <= y.m)
         ELSE x.e > y.e \/ (x.e = y.e /\ x.m >= y.m)

\* The largest r with r * r <= n, between lo and hi
RECURSIVE ISqrt(_, _, _)
ISqrt(n, lo, hi) ==
    IF lo >= hi THEN lo
    ELSE LET mid == (lo + hi + 1) \div 2
         IN  IF mid * mid <= n THEN ISqrt(n, mid, hi) ELSE ISqrt(n, lo, mid - 1)

RECURSIVE NewtonSqrt(_, _, _)
NewtonSqrt(v, g, n) ==
    IF n = 0 THEN g
    ELSE NewtonSqrt(v, FDiv(FAdd(g, FDiv(v, g)), FFromInt(2)), n - 1)

\* Math.sqrt of v >= 0
MathSqrt(v) ==
    IF v.m = 0 THEN Zero
    ELSE LET odd == v.e % 2 = 1
             m2 == IF odd THEN v.m * 10 ELSE v.m
             e2 == IF odd THEN v.e - 1 ELSE v.e
         IN  NewtonSqrt(v, FNorm(1, ISqrt(m2, 0, 40000), e2 \div 2), 3)

\* Math.PI
MathPI == [s |-> 1, m |-> 31415926, e |-> -7]

\* The sum of the terms k..n of a power series whose term k is
\* term(k-1) * (-x2) / (step(k)), starting from term
RECURSIVE SinSeries(_, _, _, _)
SinSeries(term, x2, k, n) ==
    IF k > n \/ term.m = 0 THEN Zero
    ELSE FAdd(term,
              SinSeries(FNeg(FDiv(FMul(term, x2), FFromInt((2 * k) * (2 * k + 1)))),
                        x2, k + 1, n))

\* Math.sin, by its Taylor series
MathSin(x) == SinSeries(x, FMul(x, x), 1, 14)

RECURSIVE CosSeries(_, _, _, _)
CosSeries(term, x2, k, n) ==
    IF k > n \/ term.m = 0 THEN Zero
    ELSE FAdd(term,
              CosSeries(FNeg(FDiv(FMul(term, x2), FFromInt((2 * k - 1) * (2 * k)))),
                        x2, k + 1, n))

\* Math.cos, by its Taylor series
MathCos(x) == CosSeries(FFromInt(1), FMul(x, x), 1, 14)

RECURSIVE AtanSeries(_, _, _, _)
AtanSeries(power, t2, k, n) ==
    IF k > n \/ power.m = 0 THEN Zero
    ELSE FAdd(FDiv(power, FFromInt(2 * k + 1)),
              AtanSeries(FNeg(FMul(power, t2)), t2, k + 1, n))

\* atan of 0 <= t <= 1: the series below tan(pi/8), and
\* atan t = pi/4 + atan((t - 1) / (t + 1)) above
Atan01(t) ==
    IF FLe(t, [s |-> 1, m |-> 41421356, e |-> -8])
    THEN AtanSeries(t, FMul(t, t), 0, 14)
    ELSE LET u == FDiv(FSub(t, FFromInt(1)), FAdd(t, FFromInt(1)))
         IN  FAdd(FDiv(MathPI, FFromInt(4)), AtanSeries(u, FMul(u, u), 0, 14))

\* Math.atan2(y, x) for y >= 0 and x >= 0, the only case getDistance has: its
\* arguments are square roots
MathAtan2(y, x) ==
    IF y.m = 0 THEN Zero
    ELSE IF x.m = 0 THEN FDiv(MathPI, FFromInt(2))
    ELSE IF FLe(y, x) THEN Atan01(FDiv(y, x))
    ELSE FSub(FDiv(MathPI, FFromInt(2)), Atan01(FDiv(x, y)))

\* A coordinate (ten-thousandths of a degree) as a number of degrees
Degrees(x) == FDiv(FFromInt(x), FFromInt(10000))

-----------------------------------------------------------------------------
(* The feed: Feed.filteredOffers and its helpers (Toaster.tsx lines 340-422) *)

\* The haversine distance with the cosine of the first latitude in the place
\* of that of the second
getDistance_OneLatitude(lat1, lon1, lat2, lon2) ==
    LET R == FFromInt(6371)
        rad == FDiv(MathPI, FFromInt(180))
        dLat == FMul(FSub(Degrees(lat2), Degrees(lat1)), rad)
        dLon == FMul(FSub(Degrees(lon2), Degrees(lon1)), rad)
        sinLat == MathSin(FDiv(dLat, FFromInt(2)))
        sinLon == MathSin(FDiv(dLon, FFromInt(2)))
        a == FAdd(FMul(sinLat, sinLat),
                  FMul(FMul(FMul(MathCos(FMul(Degrees(lat1), rad)),
                                 MathCos(FMul(Degrees(lat1), rad))),
                            sinLon),
                       sinLon))
        c == FMul(FFromInt(2),
                  MathAtan2(MathSqrt(a), MathSqrt(FSub(FFromInt(1), a))))
    IN  FMul(R, c)

\* Haversine distance, km (lines 341-351)
getDistance(lat1, lon1, lat2, lon2) ==
    LET R == FFromInt(6371)
        rad == FDiv(MathPI, FFromInt(180))
        dLat == FMul(FSub(Degrees(lat2), Degrees(lat1)), rad)
        dLon == FMul(FSub(Degrees(lon2), Degrees(lon1)), rad)
        sinLat == MathSin(FDiv(dLat, FFromInt(2)))
        sinLon == MathSin(FDiv(dLon, FFromInt(2)))
        a == FAdd(FMul(sinLat, sinLat),
                  FMul(FMul(FMul(MathCos(FMul(Degrees(lat1), rad)),
                                 MathCos(FMul(Degrees(lat2), rad))),
                            sinLon),
                       sinLon))
        c == FMul(FFromInt(2),
                  MathAtan2(MathSqrt(a), MathSqrt(FSub(FFromInt(1), a))))
    IN  FMul(R, c)

-----------------------------------------------------------------------------
(* Strings and dates of the expiry stage *)

\* String.prototype.split with a one-character separator
RECURSIVE split(_, _)
split(s, sep) ==
    IF \E i \in DOMAIN s : s[i] = sep
    THEN LET i == CHOOSE k \in DOMAIN s :
                     s[k] = sep /\ \A j \in 1..(k - 1) : s[j] # sep
         IN  <<SubSeq(s, 1, i - 1)>> \o split(SubSeq(s, i + 1, Len(s)), sep)
    ELSE <<s>>

IsDigit(c) == \E i \in DOMAIN Digits : Digits[i] = c

DigitValue(c) == (CHOOSE i \in DOMAIN Digits : Digits[i] = c) - 1

\* The longest prefix of s made of decimal digits
RECURSIVE DigitPrefix(_)
DigitPrefix(s) ==
    IF s # <<>> /\ IsDigit(Head(s)) THEN <<Head(s)>> \o DigitPrefix(Tail(s)) ELSE <<>>

RECURSIVE DigitsValue(_)
DigitsValue(z) ==
    IF z = <<>> THEN 0
    ELSE 10 * DigitsValue(SubSeq(z, 1, Len(z) - 1)) + DigitValue(z[Len(z)])

\* parseInt(s, 10): leading white space is skipped, a sign is read, then the
\* longest run of digits; what follows the digits is ignored; NaN if there
\* is no digit.
parseInt(s) ==
    LET t == trimStart(s)
        signed == t # <<>> /\ Head(t) \in {"+", "-"}
        z == DigitPrefix(IF signed THEN Tail(t) ELSE t)
    IN  IF z = <<>> THEN NaN
        ELSE IF signed /\ Head(t) = "-" THEN Num(-DigitsValue(z))
        ELSE Num(DigitsValue(z))

\* v - k for a number v
Minus(v, k) == IF isNaN(v) THEN NaN ELSE Num(v.n - k)

\* The day number (days since 1970-01-01) of the first day of month index mn
\* (0..11) of year y in the proleptic Gregorian calendar
DayFromYearMonth(y, mn) ==
    LET m == mn + 1
        y2 == IF m <= 2 THEN y - 1 ELSE y
        era == y2 \div 400
        yoe == y2 % 400
        mp == (m + 9) % 12
        doy == (153 * mp + 2) \div 5
        doe == yoe * 365 + yoe \div 4 - yoe \div 100 + doy
    IN  era * 146097 + doe - 719468

\* A Date at local midnight is its day number; valid = FALSE is Invalid Date.
\* new Date(year, month, day): a year of 0..99 means 1900 + year; a month
\* outside 0..11 and a day outside the month carry over (MakeDay); a time
\* outside +-100,000,000 days is Invalid Date (TimeClip).
NewDate(year, month, day) ==
    LET yr == IF 0 <= year /\ year <= 99 THEN 1900 + year ELSE year
        d == DayFromYearMonth(yr + (month \div 12), month % 12) + day - 1
    IN  IF -(10^8) <= d /\ d <= 10^8
        THEN [valid |-> TRUE, day |-> d]
        ELSE [valid |-> FALSE, day |-> 0]

\* new Date() followed by setHours(0, 0, 0, 0) on the calendar date tdy
\* (lines 366-367)
Midnight(tdy) ==
    [valid |-> TRUE, day |-> DayFromYearMonth(tdy.year, tdy.month - 1) + tdy.day - 1]

\* a >= b on two Dates: false when either is Invalid Date
DateGe(a, b) == a.valid /\ b.valid /\ a.day >= b.day

\* Array.prototype.join on an array of strings
RECURSIVE join(_, _)
join(items, sep) ==
    IF items = <<>> THEN <<>>
    ELSE IF Len(items) = 1 THEN items[1].s
    ELSE items[1].s \o sep \o join(Tail(items), sep)

-----------------------------------------------------------------------------
(* The stages of Feed.filteredOffers. An offer is an object (types.ts): an   *)
(* optional property that is absent is not in its props.                     *)

\* getOfferTitle (lines 353-359)
getOfferTitle(offer) ==
    CASE Get(offer, "type").s = "job" -> Get(offer, "jobTitle").s
      [] Get(offer, "type").s = "service" -> Get(offer, "serviceName").s
      [] Get(offer, "type").s = "product" -> Get(offer, "productName").s

\* The expiry stage with the month of expiresAt taken as a 0-based index
expiryKeeps_MonthNotDecremented(offer, tdy) ==
    IF ~Truthy(Get(offer, "expiresAt")) THEN TRUE
    ELSE LET parts == split(Get(offer, "expiresAt").s, "-")
         IN  IF Len(parts) # 3 THEN TRUE
             ELSE LET year == parseInt(parts[1])
                      month == parseInt(parts[2])
                      day == parseInt(parts[3])
                  IN  IF isNaN(year) \/ isNaN(month) \/ isNaN(day) THEN TRUE
                      ELSE DateGe(NewDate(year.n, month.n, day.n), Midnight(tdy))

\* The callback of the expiry stage (lines 369-383)
expiryKeeps(offer, tdy) ==
    IF ~Truthy(Get(offer, "expiresAt")) THEN TRUE
    ELSE LET parts == split(Get(offer, "expiresAt").s, "-")
         IN  IF Len(parts) # 3 THEN TRUE
             ELSE LET year == parseInt(parts[1])
                      month == Minus(parseInt(parts[2]), 1)
                      day == parseInt(parts[3])
                  IN  IF isNaN(year) \/ isNaN(month) \/ isNaN(day) THEN TRUE
                      ELSE DateGe(NewDate(year.n, month.n, day.n), Midnight(tdy))

\* activeOffers with the newest offer last
activeOffers_NewestLast(list, tdy) ==
    LET kept == SelectSeq(list, LAMBDA o : expiryKeeps(o, tdy))
    IN  [i \in DOMAIN kept |-> kept[Len(kept) + 1 - i]]

\* activeOffers (line 369)
activeOffers(list, tdy) == SelectSeq(list, LAMBDA o : expiryKeeps(o, tdy))

\* The type stage without the first offer that it is given
typeStage_DropsNewest(list, filter) ==
    LET rest == IF list = <<>> THEN <<>> ELSE Tail(list)
    IN  IF filter # "all"
        THEN SelectSeq(rest, LAMBDA o : Get(o, "type").s = filter)
        ELSE rest

\* The type stage (lines 387-389)
typeStage(list, filter) ==
    IF filter # "all"
    THEN SelectSeq(list, LAMBDA o : Get(o, "type").s = filter)
    ELSE list

\* The coordinates that the inputs of the feed use, as <<lat, lng>>
GeoPoints ==
    {<<400000, -750000>>, <<403000, -752000>>, <<415000, -750000>>, <<402661, -745259>>}

\* getDistance on the coordinates in use, evaluated once: the pairs
\* <<<<from, to>>, distance>>
Distances ==
    {<<p, getDistance(p[1][1], p[1][2], p[2][1], p[2][2])>> : p \in GeoPoints \X GeoPoints}

DistanceBetween(from, to) == (CHOOSE d \in Distances : d[1] = <<from, to>>)[2]

\* The proximity stage with a radius that excludes its boundary
proximityKeeps_BoundaryExcluded(offer, center) ==
    IF ~Truthy(Get(offer, "location")) THEN FALSE
    ELSE LET location == Get(offer, "location")
             distance == DistanceBetween(<<Get(center, "lat").n, Get(center, "lng").n>>,
                                         <<Get(location, "lat").n, Get(location, "lng").n>>)
         IN  ~FLe(FFromInt(50), distance)

\* The callback of the proximity stage (lines 392-396)
proximityKeeps(offer, center) ==
    IF ~Truthy(Get(offer, "location")) THEN FALSE
    ELSE LET location == Get(offer, "location")
             distance == DistanceBetween(<<Get(center, "lat").n, Get(center, "lng").n>>,
                                         <<Get(location, "lat").n, Get(location, "lng").n>>)
         IN  FLe(distance, FFromInt(50))

\* The proximity stage (lines 391-397)
proximityStage(list, center) ==
    IF Truthy(center)
    THEN SelectSeq(list, LAMBDA o : proximityKeeps(o, center))
    ELSE list

\* otherDetails (lines 404-416)
otherDetails(offer) ==
    LET address == IF Truthy(Get(offer, "location"))
                   THEN toLowerCase(Get(Get(offer, "location"), "address").s) \o <<" ">>
                   ELSE <<>>
        type == Get(offer, "type").s
    IN  address \o
        (CASE type = "job" ->
                toLowerCase(Get(offer, "company").s \o <<" ">>
                            \o join(Get(offer, "skills").items, <<" ">>))
           [] type = "service" ->
                toLowerCase(OrElse(Get(offer, "provider"), Str(<<>>)).s)
           [] type = "product" ->
                toLowerCase(OrElse(Get(offer, "brand"), Str(<<>>)).s))

\* The callback of the text stage (lines 401-418)
textKeeps(offer, lowercasedQuery) ==
    LET title == toLowerCase(getOfferTitle(offer))
        summary == toLowerCase(Get(offer, "summary").s)
    IN  \/ includes(title, lowercasedQuery)
        \/ includes(summary, lowercasedQuery)
        \/ includes(otherDetails(offer), lowercasedQuery)

\* The text stage with the query compared as typed
textStage_QueryNotLowered(list, query) ==
    IF trim(query) # <<>>
    THEN SelectSeq(list, LAMBDA o : textKeeps(o, query))
    ELSE list

\* The text stage (lines 399-420)
textStage(list, query) ==
    IF trim(query) # <<>>
    THEN SelectSeq(list, LAMBDA o : textKeeps(o, toLowerCase(query)))
    ELSE list

\* The value of the useMemo (lines 365-422)
computeFilteredOffers(list, tdy, query, filter, center) ==
    textStage(proximityStage(typeStage(activeOffers(list, tdy), filter), center), query)

-----------------------------------------------------------------------------
(* Inputs of the feed *)

\* A Location (types.ts): lat and lng in ten-thousandths of a degree
Place(address, lat, lng) ==
    Obj([address |-> Str(address), lat |-> Num(lat), lng |-> Num(lng)])

\* A job that expires in 2099, at (40.3, -75.2)
JobAcme ==
    Obj([id |-> Str(<<"J", "o", "b", "A", "c", "m", "e">>),
         type |-> Str("job"),
         jobTitle |-> Str(<<"D", "e", "v">>),
         summary |-> Str(<<"C", "o", "d", "e">>),
         company |-> Str(<<"A", "c", "m", "e", " ", "C", "o", "r", "p">>),
         skills |-> Arr(<<Str(<<"j", "s">>)>>),
         expiresAt |-> Str(<<"2", "0", "9", "9", "-", "0", "1", "-", "0", "1">>),
         location |-> Place(<<"M", "a", "i", "n", " ", "S", "t">>, 403000, -752000)])

\* A job that expired in 2000, without a location
JobGlobex ==
    Obj([id |-> Str(<<"J", "o", "b", "G", "l", "o", "b", "e", "x">>),
         type |-> Str("job"),
         jobTitle |-> Str(<<"D", "e", "v">>),
         summary |-> Str(<<"F", "i", "x">>),
         company |-> Str(<<"G", "l", "o", "b", "e", "x">>),
         skills |-> Arr(<<>>),
         expiresAt |-> Str(<<"2", "0", "0", "0", "-", "0", "1", "-", "0", "1">>)])

\* A product with no brand, no expiry and no location
BikePlain ==
    Obj([id |-> Str(<<"B", "i", "k", "e", "P", "l", "a", "i", "n">>),
         type |-> Str("product"),
         productName |-> Str(<<"B", "i", "k", "e">>),
         summary |-> Str(<<"R", "e", "d">>)])

\* A product with an empty expiresAt, at (41.5, -75.0)
BikeTrek ==
    Obj([id |-> Str(<<"B", "i", "k", "e", "T", "r", "e", "k">>),
         type |-> Str("product"),
         productName |-> Str(<<"B", "i", "k", "e">>),
         summary |-> Str(<<"B", "l", "u", "e">>),
         brand |-> Str(<<"T", "r", "e", "k">>),
         expiresAt |-> Str(<<>>),
         location |-> Place(<<"O", "a", "k", " ", "A", "v", "e">>, 415000, -750000)])

\* A service that expires on 2024-06-01, at (40.2661, -74.5259): 50 km from
\* (40.0, -75.0) to the eight digits of the model's numbers
LawnBob ==
    Obj([id |-> Str(<<"L", "a", "w", "n", "B", "o", "b">>),
         type |-> Str("service"),
         serviceName |-> Str(<<"L", "a", "w", "n">>),
         summary |-> Str(<<"M", "o", "w">>),
         provider |-> Str(<<"B", "o", "b">>),
         expiresAt |-> Str(<<"2", "0", "2", "4", "-", "0", "6", "-", "0", "1">>),
         location |-> Place(<<"E", "l", "m", " ", "R", "d">>, 402661, -745259)])

\* A service with no provider that expires on 2024-05-31
LawnRake ==
    Obj([id |-> Str(<<"L", "a", "w", "n", "R", "a", "k", "e">>),
         type |-> Str("service"),
         serviceName |-> Str(<<"L", "a", "w", "n">>),
         summary |-> Str(<<"R", "a", "k", "e">>),
         expiresAt |-> Str(<<"2", "0", "2", "4", "-", "0", "5", "-", "3", "1">>)])

\* expiresAt of one part
BikeSoon ==
    Obj([id |-> Str(<<"B", "i", "k", "e", "S", "o", "o", "n">>),
         type |-> Str("product"),
         productName |-> Str(<<"B", "i", "k", "e">>),
         summary |-> Str(<<"S", "o", "o", "n">>),
         expiresAt |-> Str(<<"s", "o", "o", "n">>)])

\* expiresAt of four parts
BikeFour ==
    Obj([id |-> Str(<<"B", "i", "k", "e", "F", "o", "u", "r">>),
         type |-> Str("product"),
         productName |-> Str(<<"B", "i", "k", "e">>),
         summary |-> Str(<<"F", "o", "u", "r">>),
         expiresAt |-> Str(<<"2", "0", "0", "0", "-", "0", "1", "-", "0", "1", "-", "0", "1">>)])

\* expiresAt with a part without a digit
BikeWord ==
    Obj([id |-> Str(<<"B", "i", "k", "e", "W", "o", "r", "d">>),
         type |-> Str("product"),
         productName |-> Str(<<"B", "i", "k", "e">>),
         summary |-> Str(<<"W", "o", "r", "d">>),
         expiresAt |-> Str(<<"2", "0", "0", "0", "-", "x", "x", "-", "0", "1">>)])

\* expiresAt with a part that starts with a digit and is not a number
BikeFirst ==
    Obj([id |-> Str(<<"B", "i", "k", "e", "F", "i", "r", "s", "t">>),
         type |-> Str("product"),
         productName |-> Str(<<"B", "i", "k", "e">>),
         summary |-> Str(<<"F", "i", "r", "s", "t">>),
         expiresAt |-> Str(<<"2", "0", "0", "0", "-", "0", "1", "-", "1", "x">>)])

OfferInputs ==
    {JobAcme, JobGlobex, BikePlain, BikeTrek, LawnBob, LawnRake,
     BikeSoon, BikeFour, BikeWord, BikeFirst}

\* The calendar date of the session: the offers expire before it, on it and
\* after it
Todays == {[year |-> 2024, month |-> 6, day |-> 1]}

QueryTexts == {<<>>, <<" ">>, <<"A", "C", "M", "E">>, <<"s", "t", " ", "a", "c", "m", "e">>}

TypeFilters == {"all", "job", "service", "product"}

\* filterCenterPoint: null or { lat, lng }
CenterPoints == {Null, Obj([lat |-> Num(400000), lng |-> Num(-750000)])}

-----------------------------------------------------------------------------
(* The state machine of the feed: one session of the Feed component on one   *)
(* calendar day. Every step re-renders Feed, which recomputes the useMemo.   *)

Recompute ==
    filteredOffers' =
        computeFilteredOffers(offers', today', searchQuery', activeFilter', filterCenterPoint')

\* The cache is idle while the feed is exercised
CacheIdle ==
    /\ now = Start
    /\ cache = Empty
    /\ storageAvailable = TRUE
    /\ store = Empty
    /\ inflight = <<>>
    /\ lastOp = NoOp
    /\ setLog = Empty
    /\ lookup = "geocodeLocation"
    /\ calls = 0
    /\ ticks = 0

\* Feed is first mounted with no offers and no center point (lines 362-363:
\* useState('') and useState('all'); App.tsx line 121: useState(null))
InitFeed ==
    /\ offers = <<>>
    /\ today \in Todays
    /\ searchQuery = <<>>
    /\ activeFilter = "all"
    /\ filterCenterPoint = Null
    /\ filteredOffers = computeFilteredOffers(offers, today, searchQuery,
                                              activeFilter, filterCenterPoint)

\* App.addOffer puts a new offer first and shows the feed (App.tsx lines
\* 317-332, 380-389): Feed is mounted anew, with its initial state. The new
\* offer may equal one of the list (two addOffer calls in one millisecond)
MountWithNewOffer(offer) ==
    /\ Len(offers) < MaxOffers
    /\ offers' = <<offer>> \o offers
    /\ searchQuery' = <<>>
    /\ activeFilter' = "all"
    /\ UNCHANGED <<today, filterCenterPoint>>
    /\ Recompute
    /\ UNCHANGED <<cacheVars, locationVars, scannerVars, accountVars>>

\* The search box changes (setSearchQuery)
setSearchQuery(query) ==
    /\ searchQuery' = query
    /\ UNCHANGED <<offers, today, activeFilter, filterCenterPoint>>
    /\ Recompute
    /\ UNCHANGED <<cacheVars, locationVars, scannerVars, accountVars>>

\* A filter button is clicked (setActiveFilter)
setActiveFilter(filter) ==
    /\ activeFilter' = filter
    /\ UNCHANGED <<offers, today, searchQuery, filterCenterPoint>>
    /\ Recompute
    /\ UNCHANGED <<cacheVars, locationVars, scannerVars, accountVars>>

\* App changes the prop filterCenterPoint (App.tsx setFilterCenterPoint)
setFilterCenterPoint(center) ==
    /\ filterCenterPoint' = center
    /\ UNCHANGED <<offers, today, searchQuery, activeFilter>>
    /\ Recompute
    /\ UNCHANGED <<cacheVars, locationVars, scannerVars, accountVars>>

NextFeed ==
    \/ \E o \in OfferInputs : MountWithNewOffer(o)
    \/ \E q \in QueryTexts : setSearchQuery(q)
    \/ \E f \in TypeFilters : setActiveFilter(f)
    \/ \E c \in CenterPoints : setFilterCenterPoint(c)

FeedInit == InitFeed /\ CacheIdle /\ LocationIdle /\ ScannerClosed /\ AccountIdle

SpecFeed == FeedInit /\ [][NextFeed]_vars

-----------------------------------------------------------------------------
(* Properties of the feed filter *)

InList(offer, list) == \E i \in DOMAIN list : list[i] = offer

\* The feed shows what the expiry stage lets through
OnlyExpiryStage ==
    activeFilter = "all" /\ filterCenterPoint = Null /\ trim(searchQuery) = <<>>

\* A text that is a number: one or more decimal digits
IsNumberText(p) == p # <<>> /\ \A i \in DOMAIN p : IsDigit(p[i])

\* expiresAt is absent, empty or unparsable: not exactly three parts between
\* '-', or a part that is not a number
UnparsableExpiry(e) ==
    \/ e.t = "undefined"
    \/ e.s = <<>>
    \/ Len(split(e.s, "-")) # 3
    \/ \E i \in DOMAIN split(e.s, "-") : ~IsNumberText(split(e.s, "-")[i])

\* C2: for every offer collection and every today, an offer whose expiresAt is
\* absent, empty or unparsable (not exactly three '-'-separated parts, or a
\* part that is not a number) is never removed by the expiry stage: the stage
\* keeps it, and the feed shows it when no other stage filters.
C2_UnparsableExpiryNeverRemoved ==
    \A i \in DOMAIN offers :
        UnparsableExpiry(Get(offers[i], "expiresAt")) =>
            /\ expiryKeeps(offers[i], today)
            /\ OnlyExpiryStage => InList(offers[i], filteredOffers)

DaysInMonth(year, month) ==
    IF month = 2
    THEN IF (year % 4 = 0 /\ year % 100 # 0) \/ year % 400 = 0 THEN 29 ELSE 28
    ELSE IF month \in {4, 6, 9, 11} THEN 30 ELSE 31

\* e is a text YYYY-MM-DD that names a day of the calendar
IsCalendarDate(e) ==
    /\ e.t = "string"
    /\ Len(e.s) = 10
    /\ e.s[5] = "-" /\ e.s[8] = "-"
    /\ \A i \in {1, 2, 3, 4, 6, 7, 9, 10} : IsDigit(e.s[i])
    /\ LET year == DigitsValue(SubSeq(e.s, 1, 4))
           month == DigitsValue(SubSeq(e.s, 6, 7))
           day == DigitsValue(SubSeq(e.s, 9, 10))
       IN  month \in 1..12 /\ day \in 1..DaysInMonth(year, month)

CalendarDate(e) ==
    [year |-> DigitsValue(SubSeq(e.s, 1, 4)),
     month |-> DigitsValue(SubSeq(e.s, 6, 7)),
     day |-> DigitsValue(SubSeq(e.s, 9, 10))]

\* The calendar date a is strictly before b
DateBefore(a, b) ==
    \/ a.year < b.year
    \/ a.year = b.year /\ a.month < b.month
    \/ a.year = b.year /\ a.month = b.month /\ a.day < b.day

\* C3: every offer whose expiresAt is a calendar date strictly before today is
\* removed by the expiry stage, and every offer whose expiresAt is today or a
\* later date is kept; the offers [job expiring 2099-01-01, job expiring
\* 2000-01-01] on 2024-06-01 with type 'all', no center point and no query give
\* exactly the first job.
C3_ExpiredRemovedOthersKept ==
    /\ \A i \in DOMAIN offers :
          LET e == Get(offers[i], "expiresAt")
          IN  IsCalendarDate(e) =>
                /\ expiryKeeps(offers[i], today) <=> ~DateBefore(CalendarDate(e), today)
                /\ DateBefore(CalendarDate(e), today) => ~InList(offers[i], filteredOffers)
                /\ (~DateBefore(CalendarDate(e), today) /\ OnlyExpiryStage)
                      => InList(offers[i], filteredOffers)
    /\ ( /\ offers = <<JobAcme, JobGlobex>>
         /\ today = [year |-> 2024, month |-> 6, day |-> 1]
         /\ OnlyExpiryStage )
       => filteredOffers = <<JobAcme>>

\* The scenario of C3 has happened
C3_Witness ==
    /\ offers = <<JobAcme, JobGlobex>>
    /\ today = [year |-> 2024, month |-> 6, day |-> 1]
    /\ searchQuery = <<>> /\ activeFilter = "all" /\ filterCenterPoint = Null
    /\ filteredOffers = <<JobAcme>>

\* The offers that reach the proximity stage, and those that reach the text stage
BeforeProximity == typeStage(activeOffers(offers, today), activeFilter)

BeforeText == proximityStage(BeforeProximity, filterCenterPoint)

HasLocation(offer) == "location" \in DOMAIN offer.props

\* The lower-cased type-specific string of an offer: company and skills of a
\* job, provider of a service, brand of a product
TypeSpecific(offer) ==
    LET type == Get(offer, "type").s
        text(f) == IF f \in DOMAIN offer.props THEN offer.props[f].s ELSE <<>>
    IN  toLowerCase(IF type = "job"
                    THEN text("company") \o <<" ">> \o join(Get(offer, "skills").items, <<" ">>)
                    ELSE IF type = "service" THEN text("provider") ELSE text("brand"))

\* The lower-cased field of an offer that holds its title
Title(offer) ==
    LET type == Get(offer, "type").s
    IN  toLowerCase(IF type = "job" THEN offer.props.jobTitle.s
                    ELSE IF type = "service" THEN offer.props.serviceName.s
                    ELSE offer.props.productName.s)

\* q is in the title, the summary, the type-specific string or the address of
\* the offer, each taken separately
MatchesOneField(offer, q) ==
    \/ includes(Title(offer), q)
    \/ includes(toLowerCase(offer.props.summary.s), q)
    \/ includes(TypeSpecific(offer), q)
    \/ HasLocation(offer) /\ includes(toLowerCase(offer.props.location.props.address.s), q)

\* C4 as stated: for every non-empty query, an offer is kept by the text stage
\* if and only if the lower-cased query is a substring of its lower-cased
\* title, summary, type-specific string or location address, each taken
\* separately; this includes a query made of white space only.
C4_TextStageFieldsSeparately ==
    searchQuery # <<>> =>
        \A i \in DOMAIN BeforeText :
            InList(BeforeText[i], filteredOffers)
                <=> MatchesOneField(BeforeText[i], toLowerCase(searchQuery))

\* q is in the address of the offer followed by a space and by its
\* type-specific string
MatchesDetails(offer, q) ==
    IF HasLocation(offer)
    THEN includes(toLowerCase(offer.props.location.props.address.s) \o <<" ">>
                    \o TypeSpecific(offer), q)
    ELSE includes(TypeSpecific(offer), q)

\* C4, amended: a query that is empty or made of white space only removes no
\* offer; for every other query an offer is kept by the text stage if and only
\* if the lower-cased query is a substring of its lower-cased title, of its
\* lower-cased summary, or of its lower-cased address followed by one space
\* and its type-specific string (the type-specific string alone for an offer
\* without location).
C4_TextStage ==
    /\ trim(searchQuery) = <<>> => filteredOffers = BeforeText
    /\ trim(searchQuery) # <<>> =>
          \A i \in DOMAIN BeforeText :
              InList(BeforeText[i], filteredOffers)
                <=> \/ includes(Title(BeforeText[i]), toLowerCase(searchQuery))
                    \/ includes(toLowerCase(BeforeText[i].props.summary.s),
                                toLowerCase(searchQuery))
                    \/ MatchesDetails(BeforeText[i], toLowerCase(searchQuery))

\* The query "st acme" keeps the job of Acme Corp at Main St, which matches
\* only across its address and its company, and removes another offer
C4_Witness ==
    /\ searchQuery = <<"s", "t", " ", "a", "c", "m", "e">>
    /\ InList(JobAcme, filteredOffers)
    /\ ~MatchesOneField(JobAcme, searchQuery)
    /\ \E i \in DOMAIN BeforeText : ~InList(BeforeText[i], filteredOffers)

\* The distance of an offer with a location to the center point is at most 50 km
WithinFiftyKm(offer, center) ==
    FLe(DistanceBetween(<<center.props.lat.n, center.props.lng.n>>,
                        <<offer.props.location.props.lat.n,
                          offer.props.location.props.lng.n>>),
        FFromInt(50))

TheCenter == Obj([lat |-> Num(400000), lng |-> Num(-750000)])

-----------------------------------------------------------------------------
(* Further properties of the feed filter *)

\* r can be had from l by leaving elements out
RECURSIVE IsSubsequence(_, _)
IsSubsequence(r, l) ==
    IF r = <<>> THEN TRUE
    ELSE IF l = <<>> THEN FALSE
    ELSE IF Head(r) = Head(l) /\ IsSubsequence(Tail(r), Tail(l)) THEN TRUE
    ELSE IsSubsequence(r, Tail(l))

\* C18: the feed filter is a stable filter: for every list of offers and every
\* filter state the result is a subsequence of the list, its elements
\* unmodified, none twice, in their order; an empty list gives an empty result.
C18_StableFilter ==
    /\ IsSubsequence(filteredOffers, offers)
    /\ offers = <<>> => filteredOffers = <<>>

\* Two different offers are both shown, in their order
C18_Witness ==
    /\ Len(offers) = 2 /\ offers[1] # offers[2]
    /\ filteredOffers = offers
    /\ filterCenterPoint # Null

\* C19: the feed filter is idempotent: with today, the type filter, the center
\* point and the query fixed, the filter applied to its own result gives that
\* result.
C19_FilterIdempotent ==
    computeFilteredOffers(filteredOffers, today, searchQuery, activeFilter,
                          filterCenterPoint) = filteredOffers

\* The filter has dropped one of two offers, with a query and a center set
C19_Witness ==
    /\ Len(offers) = 2 /\ Len(filteredOffers) = 1
    /\ trim(searchQuery) # <<>>
    /\ filterCenterPoint # Null

\* The coordinates in a state of the feed: the center point and the locations
\* of the offers
PointsInUse ==
    (IF filterCenterPoint = Null THEN {}
     ELSE {<<Get(filterCenterPoint, "lat").n, Get(filterCenterPoint, "lng").n>>})
    \cup { <<Get(Get(offers[i], "location"), "lat").n,
             Get(Get(offers[i], "location"), "lng").n>> :
              i \in {j \in DOMAIN offers : Truthy(Get(offers[j], "location"))} }

\* C20: getDistance gives 0 for two identical points, and the same distance
\* from A to B as from B to A, for the coordinates that the feed can hold.
C20_DistanceZeroAndSymmetric ==
    /\ PointsInUse \subseteq GeoPoints
    /\ \A a \in GeoPoints, b \in GeoPoints :
          /\ DistanceBetween(a, a) = Zero
          /\ DistanceBetween(a, b) = DistanceBetween(b, a)

\* A center and an offer at another latitude and longitude, some way apart
C20_Witness ==
    /\ filterCenterPoint = TheCenter
    /\ \E i \in DOMAIN offers :
          /\ Truthy(Get(offers[i], "location"))
          /\ Get(Get(offers[i], "location"), "lat").n = 403000
          /\ Get(Get(offers[i], "location"), "lng").n = -752000
          /\ FLe(FFromInt(30), DistanceBetween(<<400000, -750000>>, <<403000, -752000>>))
          /\ DistanceBetween(<<403000, -752000>>, <<400000, -750000>>)
                = DistanceBetween(<<400000, -750000>>, <<403000, -752000>>)

-----------------------------------------------------------------------------
(* Further properties of the lookups *)

\* C11: getLocationSuggestions called with an input of fewer than three
\* characters (such as "ny") returns the empty list, without calling the
\* external service and without reading or writing the cache.
C11_ShortQueryReturnsEmpty ==
    [][ ( /\ lastOp'.op = "getLocationSuggestions"
          /\ lastOp'.phase = "call"
          /\ Len(lastOp'.arg.s) < 3 ) =>
            /\ lastOp'.outcome = "return"
            /\ lastOp'.ret = Arr(<<>>)
            /\ ~lastOp'.external /\ inflight' = inflight
            /\ ~lastOp'.cacheRead /\ ~lastOp'.durableRead
            /\ cache' = cache /\ store' = store /\ setLog' = setLog ]_vars

\* getLocationSuggestions("ny") has returned the empty list
C11_Witness ==
    /\ lastOp.op = "getLocationSuggestions"
    /\ lastOp.phase = "call"
    /\ lastOp.arg = Str(<<"n", "y">>)
    /\ lastOp.ret = Arr(<<>>)
    /\ ~lastOp.external

-----------------------------------------------------------------------------
(* The location field of App (App.tsx): its two debounced copies and the     *)
(* effects that follow them. A step of App is an event handler, a timer or   *)
(* the continuation of an await, followed by the renders and effects it      *)
(* causes, until a render changes no state.                                  *)

\* The state of App that the location field involves, as one record
AppState ==
    [locationQuery |-> locationQuery, showSuggestions |-> showSuggestions,
     isLocating |-> isLocating, userLocation |-> userLocation,
     suggestions |-> suggestions, isFetchingSuggestions |-> isFetchingSuggestions,
     debouncedSuggestionQuery |-> debouncedSuggestionQuery,
     debouncedGeocodeQuery |-> debouncedGeocodeQuery,
     filterCenterPoint |-> filterCenterPoint,
     timers |-> timers, awaiting |-> awaiting, started |-> <<>>]

\* What a render shows: the React state, without timers and suspended calls
Rendered(s) ==
    <<s.locationQuery, s.showSuggestions, s.isLocating, s.userLocation, s.suggestions,
      s.isFetchingSuggestions, s.debouncedSuggestionQuery, s.debouncedGeocodeQuery,
      s.filterCenterPoint>>

\* clearTimeout(handler) for the handler that the hook's last effect created
RECURSIVE clearTimeout(_, _)
clearTimeout(ts, hook) ==
    IF ts = <<>> THEN <<>>
    ELSE IF ts[Len(ts)].hook = hook THEN SubSeq(ts, 1, Len(ts) - 1)
    ELSE Append(clearTimeout(SubSeq(ts, 1, Len(ts) - 1), hook), ts[Len(ts)])

\* The effect of useDebounce without its cleanup
useDebounceEffect_NoCleanup(hook, delay, prev, cur, u) ==
    IF cur.locationQuery # prev.locationQuery
    THEN [u EXCEPT !.timers = Append(@, [hook |-> hook, remaining |-> delay,
                                          value |-> cur.locationQuery])]
    ELSE u

\* The effect of useDebounce(value, delay) when value has changed (lines 15-22):
\* the cleanup of the previous run, then setTimeout
useDebounceEffect(hook, delay, prev, cur, u) ==
    IF cur.locationQuery # prev.locationQuery
    THEN [u EXCEPT !.timers = Append(clearTimeout(@, hook),
                                     [hook |-> hook, remaining |-> delay,
                                      value |-> cur.locationQuery])]
    ELSE u

\* { lat: userLocation.lat, lng: userLocation.lng }
CenterOf(location) ==
    Obj([lat |-> Get(location, "lat"), lng |-> Get(location, "lng")])

\* The user-location default effect (lines 224-229)
userLocationEffect(prev, cur, u) ==
    IF /\ <<cur.userLocation, cur.locationQuery>> # <<prev.userLocation, prev.locationQuery>>
       /\ Truthy(cur.userLocation) /\ ~Truthy(Str(cur.locationQuery))
    THEN [u EXCEPT !.filterCenterPoint = CenterOf(cur.userLocation),
                   !.locationQuery = Get(cur.userLocation, "name").s]
    ELSE u

\* The suggestions effect (lines 232-247), up to the await in fetchSuggestions.
\* awaiting holds the fetches before the geocodeLocation lookups, each kind in
\* the order of its calls: any of them may settle next
suggestionsEffect(prev, cur, u) ==
    IF /\ <<cur.debouncedSuggestionQuery, cur.isLocating, cur.showSuggestions>>
            # <<prev.debouncedSuggestionQuery, prev.isLocating, prev.showSuggestions>>
       /\ cur.showSuggestions
    THEN IF cur.isLocating \/ Len(trim(cur.debouncedSuggestionQuery)) < 3
         THEN [u EXCEPT !.suggestions = <<>>]
         ELSE [u EXCEPT !.isFetchingSuggestions = TRUE,
                        !.awaiting =
                            LET fetches == SelectSeq(@, LAMBDA a : a.op = "getLocationSuggestions")
                                lookups == SelectSeq(@, LAMBDA a : a.op = "geocodeLocation")
                            IN  Append(fetches, [op |-> "getLocationSuggestions",
                                                 arg |-> cur.debouncedSuggestionQuery])
                                  \o lookups]
    ELSE u

\* geocodeAndSetFilter(location), up to its await (lines 209-217)
geocodeAndSetFilter(location, u) ==
    LET closed == [u EXCEPT !.showSuggestions = FALSE]
    IN  IF Truthy(Str(trim(location)))
        THEN [closed EXCEPT !.awaiting = Append(@, [op |-> "geocodeLocation",
                                                    arg |-> location]),
                            !.started = Append(@, location)]
        ELSE [closed EXCEPT !.filterCenterPoint = Null]

\* The debounced-geocode effect without the test of line 250
geocodeEffect_NoGuard(prev, cur, u) ==
    IF <<cur.debouncedGeocodeQuery, cur.isLocating, cur.showSuggestions, cur.userLocation>>
         = <<prev.debouncedGeocodeQuery, prev.isLocating, prev.showSuggestions, prev.userLocation>>
    THEN u
    ELSE IF trim(cur.debouncedGeocodeQuery) = <<>>
         THEN [u EXCEPT !.filterCenterPoint = Null]
    ELSE IF Truthy(cur.userLocation)
            /\ cur.debouncedGeocodeQuery = Get(cur.userLocation, "name").s
         THEN [u EXCEPT !.filterCenterPoint = CenterOf(cur.userLocation)]
    ELSE geocodeAndSetFilter(cur.debouncedGeocodeQuery, u)

\* The debounced-geocode effect (lines 249-263)
geocodeEffect(prev, cur, u) ==
    IF <<cur.debouncedGeocodeQuery, cur.isLocating, cur.showSuggestions, cur.userLocation>>
         = <<prev.debouncedGeocodeQuery, prev.isLocating, prev.showSuggestions, prev.userLocation>>
    THEN u
    ELSE IF cur.isLocating \/ cur.showSuggestions THEN u
    ELSE IF trim(cur.debouncedGeocodeQuery) = <<>>
         THEN [u EXCEPT !.filterCenterPoint = Null]
    ELSE IF Truthy(cur.userLocation)
            /\ cur.debouncedGeocodeQuery = Get(cur.userLocation, "name").s
         THEN [u EXCEPT !.filterCenterPoint = CenterOf(cur.userLocation)]
    ELSE geocodeAndSetFilter(cur.debouncedGeocodeQuery, u)

\* The effects of one render, in the order of their declaration: the render
\* shows cur, the render before it showed prev
RunEffects(prev, cur) ==
    LET u1 == useDebounceEffect("suggestion", 300, prev, cur, cur)
        u2 == useDebounceEffect("geocode", 1000, prev, cur, u1)
        u3 == userLocationEffect(prev, cur, u2)
        u4 == suggestionsEffect(prev, cur, u3)
    IN  geocodeEffect(prev, cur, u4)

\* Renders and effects until a render changes no state
RECURSIVE Settle(_, _)
Settle(prev, cur) ==
    LET next == RunEffects(prev, cur)
    IN  IF Rendered(next) = Rendered(cur) THEN next ELSE Settle(cur, next)

-----------------------------------------------------------------------------
(* Inputs and steps of the location field *)

\* What the user types into the field
TypedTexts == {<<>>, <<"r", "o", "m">>}

\* A suggestion of the service, also the name of the city of the user
Rome == <<"R", "o", "m", "e">>

\* What getLocationSuggestions resolves to
SuggestionLists == {<<>>, <<Rome>>}

\* What reverseGeocode resolves to on mount
CityNames == {Null, Str(Rome)}

\* The position that getCurrentPosition reports
UserCoords == [lat |-> 418000, lng |-> 124000]

\* What geocodeLocation(text) resolves to: null, or coordinates of the text
GeocodeResults(text) == {Null, Obj([lat |-> Num(10000 * Len(text)), lng |-> Num(0)])}

TimeSteps == {300, 700}

\* The state after App's first render and its effects: both useDebounce
\* hooks have set their timer, getCurrentPosition is requested (lines 131-148),
\* the other effects return at once
InitLocation ==
    /\ locationQuery = <<>>
    /\ showSuggestions = FALSE
    /\ isLocating = TRUE
    /\ userLocation = Null
    /\ suggestions = <<>>
    /\ isFetchingSuggestions = FALSE
    /\ debouncedSuggestionQuery = <<>>
    /\ debouncedGeocodeQuery = <<>>
    /\ timers = << [hook |-> "suggestion", remaining |-> 300, value |-> <<>>],
                   [hook |-> "geocode", remaining |-> 1000, value |-> <<>>] >>
    /\ awaiting = <<>>
    /\ geolocation = "requested"
    /\ sinceChange = 0
    /\ lastEvent = [event |-> "other", hook |-> "none", settled |-> NothingSettled]
    /\ filterCenterPoint = Null

\* The feed is not looked at while the location field is exercised
FeedAside ==
    /\ offers = <<>>
    /\ today = [year |-> 2024, month |-> 6, day |-> 1]
    /\ searchQuery = <<>>
    /\ activeFilter = "all"
    /\ filteredOffers = <<>>

\* The state s, set by a handler, is rendered; the renders and effects that
\* follow run, and the result becomes the state of App. settled is the
\* geocodeLocation lookup whose await the step resumes, if any
StepSettling(event, hook, settled, s) ==
    \E f \in {Settle(AppState, s)} :
        /\ Len(f.awaiting) <= MaxAwaiting
        /\ Len(f.timers) <= MaxTimers
        /\ locationQuery' = f.locationQuery
        /\ showSuggestions' = f.showSuggestions
        /\ isLocating' = f.isLocating
        /\ userLocation' = f.userLocation
        /\ suggestions' = f.suggestions
        /\ isFetchingSuggestions' = f.isFetchingSuggestions
        /\ debouncedSuggestionQuery' = f.debouncedSuggestionQuery
        /\ debouncedGeocodeQuery' = f.debouncedGeocodeQuery
        /\ filterCenterPoint' = f.filterCenterPoint
        /\ timers' = f.timers
        /\ awaiting' = f.awaiting
        /\ sinceChange' = IF s.locationQuery # locationQuery \/ f.locationQuery # locationQuery
                          THEN 0 ELSE sinceChange
        /\ lastEvent' = [event |-> event, hook |-> hook, settled |-> settled]
        /\ UNCHANGED <<offers, today, searchQuery, activeFilter, filteredOffers>>
        /\ UNCHANGED <<cacheVars, scannerVars, accountVars>>

Step(event, hook, s) == StepSettling(event, hook, NothingSettled, s)

\* The user edits the field (onQueryChange = setLocationQuery, line 367); the
\* input is disabled while locating (line 75)
onQueryChange(text) ==
    /\ ~isLocating
    /\ text # locationQuery
    /\ UNCHANGED geolocation
    /\ Step("other", "none", [AppState EXCEPT !.locationQuery = text])

\* The field gets the focus (line 368)
onFocus ==
    /\ ~isLocating
    /\ UNCHANGED geolocation
    /\ Step("other", "none", [AppState EXCEPT !.showSuggestions = TRUE])

\* Enter is pressed in the field (lines 345-350)
handleKeyDown ==
    /\ ~isLocating
    /\ UNCHANGED geolocation
    /\ Step("other", "none", geocodeAndSetFilter(locationQuery, AppState))

\* The clear button, shown when the field is not empty (lines 78-82, 352-355)
handleClearLocation ==
    /\ ~isLocating /\ locationQuery # <<>>
    /\ UNCHANGED geolocation
    /\ Step("clear", "none",
            [AppState EXCEPT !.locationQuery = <<>>, !.filterCenterPoint = Null])

\* A suggestion of the open dropdown is chosen (lines 83-98, 219-222)
handleSuggestionClick(suggestion) ==
    /\ showSuggestions /\ ~isFetchingSuggestions
    /\ \E i \in DOMAIN suggestions : suggestions[i] = suggestion
    /\ UNCHANGED geolocation
    /\ Step("select", "none",
            geocodeAndSetFilter(suggestion, [AppState EXCEPT !.locationQuery = suggestion]))

\* A mouse button goes down outside the field (lines 265-273)
handleClickOutside ==
    /\ UNCHANGED geolocation
    /\ Step("other", "none", [AppState EXCEPT !.showSuggestions = FALSE])

\* getCurrentPosition succeeds and reverseGeocode resolves to cityName
\* (lines 132-140)
positionFound(cityName) ==
    /\ geolocation = "requested"
    /\ geolocation' = "settled"
    /\ Step("resume", "none",
            [AppState EXCEPT
               !.userLocation = Obj([lat |-> Num(UserCoords.lat), lng |-> Num(UserCoords.lng),
                                     name |-> OrElse(cityName, Str(<<>>))]),
               !.isLocating = FALSE])

\* getCurrentPosition fails (lines 142-145)
positionError ==
    /\ geolocation = "requested"
    /\ geolocation' = "settled"
    /\ Step("resume", "none", [AppState EXCEPT !.isLocating = FALSE])

\* The timer of a useDebounce hook fires: setDebouncedValue(value) (lines 16-18)
debounceTimeout(hook) ==
    \E i \in DOMAIN timers :
        /\ timers[i].hook = hook
        /\ timers[i].remaining = 0
        /\ UNCHANGED geolocation
        /\ Step("timeout", hook,
                IF hook = "suggestion"
                THEN [AppState EXCEPT !.timers = RemoveAt(timers, i),
                                      !.debouncedSuggestionQuery = timers[i].value]
                ELSE [AppState EXCEPT !.timers = RemoveAt(timers, i),
                                      !.debouncedGeocodeQuery = timers[i].value])

\* geocodeAndSetFilter after its await, with a fence: the response of a lookup
\* is dropped when a lookup that was called later is awaited or the field
\* holds another text
geocodeAndSetFilterResume_Fenced(i, coords) ==
    /\ i \in DOMAIN awaiting
    /\ awaiting[i].op = "geocodeLocation"
    /\ coords \in GeocodeResults(awaiting[i].arg)
    /\ UNCHANGED geolocation
    /\ StepSettling("resume", "none", [arg |-> awaiting[i].arg, result |-> coords],
                    IF i = Len(awaiting) /\ awaiting[i].arg = locationQuery
                    THEN [AppState EXCEPT !.awaiting = RemoveAt(awaiting, i),
                                          !.filterCenterPoint = coords]
                    ELSE [AppState EXCEPT !.awaiting = RemoveAt(awaiting, i)])

\* geocodeAndSetFilter after its await, keeping the center when the lookup
\* gives null
geocodeAndSetFilterResume_KeepsCenter(i, coords) ==
    /\ i \in DOMAIN awaiting
    /\ awaiting[i].op = "geocodeLocation"
    /\ coords \in GeocodeResults(awaiting[i].arg)
    /\ UNCHANGED geolocation
    /\ StepSettling("resume", "none", [arg |-> awaiting[i].arg, result |-> coords],
                    IF coords = Null
                    THEN [AppState EXCEPT !.awaiting = RemoveAt(awaiting, i)]
                    ELSE [AppState EXCEPT !.awaiting = RemoveAt(awaiting, i),
                                          !.filterCenterPoint = coords])

\* geocodeAndSetFilter after its await: setFilterCenterPoint(coords) (line 213)
geocodeAndSetFilterResume(i, coords) ==
    /\ i \in DOMAIN awaiting
    /\ awaiting[i].op = "geocodeLocation"
    /\ coords \in GeocodeResults(awaiting[i].arg)
    /\ UNCHANGED geolocation
    /\ StepSettling("resume", "none", [arg |-> awaiting[i].arg, result |-> coords],
                    [AppState EXCEPT !.awaiting = RemoveAt(awaiting, i),
                                     !.filterCenterPoint = coords])

\* fetchSuggestions after its await (lines 240-241)
fetchSuggestionsResume(i, list) ==
    /\ i \in DOMAIN awaiting
    /\ awaiting[i].op = "getLocationSuggestions"
    /\ UNCHANGED geolocation
    /\ Step("resume", "none",
            [AppState EXCEPT !.awaiting = RemoveAt(awaiting, i),
                             !.suggestions = list,
                             !.isFetchingSuggestions = FALSE])

\* d ms pass, until the next timer is due: nothing depends on the time between
TimePasses(d) ==
    /\ \E i \in DOMAIN timers : timers[i].remaining = d
    /\ \A i \in DOMAIN timers : timers[i].remaining = 0 \/ timers[i].remaining >= d
    /\ timers' = [i \in DOMAIN timers |->
                    [timers[i] EXCEPT !.remaining = IF @ > d THEN @ - d ELSE 0]]
    /\ sinceChange' = IF sinceChange + d > 1000 THEN 1000 ELSE sinceChange + d
    /\ lastEvent' = [event |-> "other", hook |-> "none", settled |-> NothingSettled]
    /\ UNCHANGED <<locationQuery, showSuggestions, isLocating, userLocation, suggestions,
                   isFetchingSuggestions, debouncedSuggestionQuery, debouncedGeocodeQuery,
                   awaiting, geolocation>>
    /\ UNCHANGED <<cacheVars, feedVars, scannerVars, accountVars>>

NextLocation ==
    \/ \E text \in TypedTexts : onQueryChange(text)
    \/ onFocus
    \/ handleKeyDown
    \/ handleClearLocation
    \/ \E suggestion \in {Rome} : handleSuggestionClick(suggestion)
    \/ handleClickOutside
    \/ \E cityName \in CityNames : positionFound(cityName)
    \/ positionError
    \/ \E hook \in {"suggestion", "geocode"} : debounceTimeout(hook)
    \/ \E i \in 1..MaxAwaiting, text \in TypedTexts \cup {Rome} :
          \E coords \in GeocodeResults(text) : geocodeAndSetFilterResume(i, coords)
    \/ \E i \in 1..MaxAwaiting, list \in SuggestionLists : fetchSuggestionsResume(i, list)
    \/ \E d \in TimeSteps : TimePasses(d)

LocationInit ==
    InitLocation /\ FeedAside /\ CacheIdle /\ ScannerClosed /\ AccountIdle

SpecLocation == LocationInit /\ [][NextLocation]_vars

\* A geocodeLocation lookup that is awaited settles
LookupSettles ==
    \E i \in 1..MaxAwaiting, text \in TypedTexts \cup {Rome} :
        \E coords \in GeocodeResults(text) : geocodeAndSetFilterResume(i, coords)

\* The location field when the user does nothing but type, the suggestions
\* being closed
NextTyping ==
    \/ \E text \in TypedTexts : onQueryChange(text)
    \/ \E cityName \in CityNames : positionFound(cityName)
    \/ positionError
    \/ \E hook \in {"suggestion", "geocode"} : debounceTimeout(hook)
    \/ LookupSettles
    \/ \E d \in TimeSteps : TimePasses(d)

\* Time passes, a timer that is due fires (the event loop runs the callback
\* passed to setTimeout), and an awaited lookup settles
SpecTyping ==
    /\ LocationInit /\ [][NextTyping]_vars
    /\ WF_vars(\E d \in TimeSteps : TimePasses(d))
    /\ WF_vars(debounceTimeout("suggestion"))
    /\ WF_vars(debounceTimeout("geocode"))
    /\ WF_vars(LookupSettles)

-----------------------------------------------------------------------------
(* Properties of the location field *)

Hooks == {"suggestion", "geocode"}

\* The delay of a hook (lines 124-125) and its debounced value
DelayOf(hook) == IF hook = "suggestion" THEN 300 ELSE 1000

Debounced(hook) ==
    IF hook = "suggestion" THEN debouncedSuggestionQuery ELSE debouncedGeocodeQuery

Pending(hook) == {i \in DOMAIN timers : timers[i].hook = hook}

\* A step in which the debounced value of a hook changes happens when the
\* source has been unchanged for at least the delay, and gives the debounced
\* value the current source value; a timer that fires leaves no timer of its
\* hook behind
DebouncedChangesWhenQuiet ==
    \A hook \in Hooks :
        /\ (IF hook = "suggestion"
            THEN debouncedSuggestionQuery' # debouncedSuggestionQuery
            ELSE debouncedGeocodeQuery' # debouncedGeocodeQuery) =>
              /\ sinceChange >= DelayOf(hook)
              /\ locationQuery' = locationQuery
              /\ (IF hook = "suggestion" THEN debouncedSuggestionQuery'
                                       ELSE debouncedGeocodeQuery') = locationQuery
              /\ lastEvent'.event = "timeout" /\ lastEvent'.hook = hook
        /\ (lastEvent'.event = "timeout" /\ lastEvent'.hook = hook) =>
              /\ Pending(hook) # {}
              /\ \A i \in DOMAIN timers' : timers'[i].hook # hook

\* At most one timer is pending per hook; it holds the current source value;
\* when none is pending the debounced value is the source value
OneTimerPerHook ==
    \A hook \in Hooks :
        /\ Cardinality(Pending(hook)) <= 1
        /\ \A i \in Pending(hook) : timers[i].value = locationQuery
        /\ Pending(hook) = {} => Debounced(hook) = locationQuery

\* A source value that has been unchanged for the delay is delivered, unless
\* the source changes again
QuietPeriodDelivers ==
    \A hook \in Hooks :
        (sinceChange >= DelayOf(hook) /\ Debounced(hook) # locationQuery)
            ~> (Debounced(hook) = locationQuery \/ sinceChange < DelayOf(hook))

\* C12: the debounced value of useDebounce changes only at an instant at which
\* the source value has been unchanged for at least delay ms, and then becomes
\* the current source value; source changes that follow each other by less
\* than delay ms cause no intermediate change; at most one timer is pending per
\* hook; each quiet period produces exactly one update.
C12_Debounce ==
    /\ [][DebouncedChangesWhenQuiet]_vars
    /\ []OneTimerPerHook
    /\ QuietPeriodDelivers

\* The geocode hook has delivered a typed text, 1000 ms after the last change
C12_Witness ==
    /\ lastEvent.event = "timeout" /\ lastEvent.hook = "geocode"
    /\ debouncedGeocodeQuery = locationQuery
    /\ locationQuery # <<>>
    /\ sinceChange = 1000

\* C13: while the suggestions are shown or the position is being determined,
\* an update of the 1000 ms debounced geocode query starts no geocodeLocation
\* lookup and leaves filterCenterPoint as it is.
C13_GeocodeSuppressed ==
    [][ ( /\ debouncedGeocodeQuery' # debouncedGeocodeQuery
          /\ showSuggestions \/ isLocating ) =>
            /\ awaiting' = awaiting
            /\ filterCenterPoint' = filterCenterPoint
            /\ showSuggestions' = showSuggestions ]_vars

\* The geocode hook has delivered a typed text while the suggestions are shown,
\* and nothing is awaited
C13_Witness ==
    /\ lastEvent.event = "timeout" /\ lastEvent.hook = "geocode"
    /\ showSuggestions
    /\ debouncedGeocodeQuery = <<"r", "o", "m">>
    /\ awaiting = <<>>

-----------------------------------------------------------------------------
(* The scanner: components/Scanner.tsx, opened by OfferForm.tsx (line 392), *)
(* and analyzeOfferImage of geminiService.ts (lines 215-274).                *)
(* A stream is a positive number, 0 is null. setState of an instance that    *)
(* is unmounted changes nothing; instance tells the instances apart.         *)

\* A string of which only the identity matters
Message(text) == [t |-> "string", text |-> text]

CameraUnavailable ==
    Message("Could not access the camera. Please check your browser settings and grant permission to use this feature.")

CameraDenied ==
    Message("Camera access was denied. You need to grant permission in your browser's settings to scan job offers.")

FileUnreadable == Message("There was a problem loading the selected image.")

AnalysisFailed ==
    Message("Failed to process the image. Please try again with a clearer picture.")

AnalysisFailedUnknown ==
    Message("An unknown error occurred while processing the image.")

ScanFailedUnknown == Message("An unknown error occurred.")

\* The properties that analyzeOfferImage copies (lines 243-262)
ResultFields ==
    { "type", "jobTitle", "company", "summary", "responsibilities", "skills",
      "salary", "salaryType", "serviceName", "provider", "price", "priceType",
      "phone", "email", "productName", "brand", "condition", "location",
      "additionalDetails", "expiresAt" }

\* generateContent rejects, with an Error or with another value
RejectedWith(isError) == [rejects |-> TRUE, isError |-> isError, text |-> Undefined]

\* analyzeOfferImage (lines 215-274): the try block throws when the call
\* rejects, when response.text is undefined, when the text is not JSON and
\* when it is the JSON text null; the catch block throws an Error with one of
\* two messages
analyzeOfferImage(resp) ==
    LET thrown ==
            IF resp.rejects THEN [threw |-> TRUE, isError |-> resp.isError]
            ELSE IF resp.text.t = "undefined" THEN [threw |-> TRUE, isError |-> TRUE]
            ELSE IF JSONparse(resp.text).threw THEN [threw |-> TRUE, isError |-> TRUE]
            ELSE IF ~CanRead(JSONparse(resp.text).value)
                 THEN [threw |-> TRUE, isError |-> TRUE]
            ELSE [threw |-> FALSE, isError |-> FALSE]
    IN  IF thrown.threw
        THEN [rejects |-> TRUE, isError |-> TRUE,
              message |-> IF thrown.isError THEN AnalysisFailed
                          ELSE AnalysisFailedUnknown,
              value |-> Undefined]
        ELSE [rejects |-> FALSE, isError |-> FALSE, message |-> Null,
              value |-> Obj([f \in ResultFields |->
                               Get(JSONparse(resp.text).value, f)])]

\* stopCamera of a render whose stream state is s (lines 40-45): the tracks
\* that are live afterwards
stopCamera(s, live) == IF s # 0 THEN live \ {s} ELSE live

\* The stream state in the render of the mount effect, whose cleanup calls the
\* stopCamera of that render (lines 15, 47-53)
MountStream == 0

\* What the responses of the analysis are
AnalysisResponses ==
    { RejectedWith(TRUE), RejectedWith(FALSE), NoText, Unparsable, Answer(Null),
      Answer(Obj([type |-> Str(<<"j", "o", "b">>), jobTitle |-> Str(<<"x">>)])) }

\* A data URL: a media type, a comma, base64 data
ImageUrls == { <<"j", ",", "A">> }

CameraOutcomes == {"stream", "NotAllowedError", "NotFoundError"}

Mounted(i) == scannerOpen /\ instance = i

\* The number of calls and reads that have not settled
Unsettled == Len(cameraRequests) + Len(reads) + Len(analyses)

\* The scanner is unmounted: the cleanup of the mount effect runs
Unmount ==
    /\ scannerOpen' = FALSE
    /\ liveStreams' = stopCamera(MountStream, liveStreams)
    /\ stream' = IF MountStream # 0 THEN 0 ELSE stream

\* The scan button of OfferForm (line 414): Scanner mounts and its effect
\* calls startCamera (lines 15-18, 20-25, 47-48)
openScanner ==
    /\ ~scannerOpen
    /\ instance < MaxMounts
    /\ Unsettled < MaxPending
    /\ scannerOpen' = TRUE
    /\ instance' = instance + 1
    /\ stream' = 0
    /\ capturedImage' = Null
    /\ isLoading' = FALSE
    /\ error' = Null
    /\ cameraRequests' = Append(cameraRequests, instance + 1)
    /\ lastScan' = OtherStep
    /\ UNCHANGED <<reads, analyses, liveStreams, streamCount>>
    /\ UNCHANGED <<cacheVars, feedVars, locationVars, accountVars>>

\* getUserMedia settles (lines 26-37)
startCameraResume(i, outcome) ==
    /\ i \in DOMAIN cameraRequests
    /\ cameraRequests' = RemoveAt(cameraRequests, i)
    /\ lastScan' = OtherStep
    /\ IF outcome = "stream"
       THEN /\ streamCount < MaxStreams
            /\ streamCount' = streamCount + 1
            /\ liveStreams' = liveStreams \cup {streamCount + 1}
            /\ stream' = IF Mounted(cameraRequests[i]) THEN streamCount + 1 ELSE stream
            /\ UNCHANGED error
       ELSE /\ error' = IF ~Mounted(cameraRequests[i]) THEN error
                        ELSE IF outcome = "NotAllowedError" THEN CameraDenied
                        ELSE CameraUnavailable
            /\ UNCHANGED <<stream, liveStreams, streamCount>>
    /\ UNCHANGED <<scannerOpen, instance, capturedImage, isLoading, reads, analyses>>
    /\ UNCHANGED <<cacheVars, feedVars, locationVars, accountVars>>

\* The retry button of CameraError (lines 132, 152): startCamera
retryCamera ==
    /\ scannerOpen /\ stream = 0 /\ capturedImage = Null /\ error # Null
    /\ Unsettled < MaxPending
    /\ error' = Null
    /\ cameraRequests' = Append(cameraRequests, instance)
    /\ lastScan' = OtherStep
    /\ UNCHANGED <<scannerOpen, instance, stream, capturedImage, isLoading, reads,
                   analyses, liveStreams, streamCount>>
    /\ UNCHANGED <<cacheVars, feedVars, locationVars, accountVars>>

\* The capture button, disabled without a stream (lines 55-69, 176)
handleCapture(url) ==
    /\ scannerOpen /\ capturedImage = Null /\ stream # 0
    /\ capturedImage' = Str(url)
    /\ liveStreams' = stopCamera(stream, liveStreams)
    /\ stream' = 0
    /\ lastScan' = OtherStep
    /\ UNCHANGED <<scannerOpen, instance, isLoading, error, cameraRequests, reads,
                   analyses, streamCount>>
    /\ UNCHANGED <<cacheVars, feedVars, locationVars, accountVars>>

\* A file is chosen (lines 71-74, 86, 182): the reader's callbacks are those
\* of this render
handleFileSelect ==
    /\ scannerOpen /\ capturedImage = Null
    /\ ~(stream = 0 /\ error # Null)
    /\ Unsettled < MaxPending
    /\ reads' = Append(reads, [instance |-> instance, stream |-> stream])
    /\ lastScan' = OtherStep
    /\ UNCHANGED <<scannerOpen, instance, stream, capturedImage, isLoading, error,
                   cameraRequests, analyses, liveStreams, streamCount>>
    /\ UNCHANGED <<cacheVars, feedVars, locationVars, accountVars>>

\* reader.onload with a string (lines 75-81): stopCamera is that of the
\* render in which the file was chosen
readerOnload(i, url) ==
    /\ i \in DOMAIN reads
    /\ reads' = RemoveAt(reads, i)
    /\ capturedImage' = IF Mounted(reads[i].instance) THEN Str(url) ELSE capturedImage
    /\ liveStreams' = stopCamera(reads[i].stream, liveStreams)
    /\ stream' = IF Mounted(reads[i].instance) /\ reads[i].stream # 0 THEN 0 ELSE stream
    /\ lastScan' = OtherStep
    /\ UNCHANGED <<scannerOpen, instance, isLoading, error, cameraRequests, analyses,
                   streamCount>>
    /\ UNCHANGED <<cacheVars, feedVars, locationVars, accountVars>>

\* reader.onerror (lines 82-85)
readerOnerror(i) ==
    /\ i \in DOMAIN reads
    /\ reads' = RemoveAt(reads, i)
    /\ error' = IF Mounted(reads[i].instance) THEN FileUnreadable ELSE error
    /\ lastScan' = OtherStep
    /\ UNCHANGED <<scannerOpen, instance, stream, capturedImage, isLoading,
                   cameraRequests, analyses, liveStreams, streamCount>>
    /\ UNCHANGED <<cacheVars, feedVars, locationVars, accountVars>>

\* The retake button (lines 91-95, 186)
handleRetake ==
    /\ scannerOpen /\ capturedImage # Null
    /\ Unsettled < MaxPending
    /\ capturedImage' = Null
    /\ error' = Null
    /\ cameraRequests' = Append(cameraRequests, instance)
    /\ lastScan' = OtherStep
    /\ UNCHANGED <<scannerOpen, instance, stream, isLoading, reads, analyses,
                   liveStreams, streamCount>>
    /\ UNCHANGED <<cacheVars, feedVars, locationVars, accountVars>>

\* capturedImage.split(',')[1]
Base64Of(url) ==
    IF Len(split(url, ",")) >= 2 THEN Str(split(url, ",")[2]) ELSE Undefined

\* The use-scan button, disabled while loading (lines 97-105, 190)
handleProcess ==
    /\ scannerOpen /\ capturedImage # Null /\ ~isLoading
    /\ Truthy(capturedImage)
    /\ Unsettled < MaxPending
    /\ isLoading' = TRUE
    /\ error' = Null
    /\ analyses' = Append(analyses, [instance |-> instance,
                                     data |-> Base64Of(capturedImage.s)])
    /\ lastScan' = OtherStep
    /\ UNCHANGED <<scannerOpen, instance, stream, capturedImage, cameraRequests,
                   reads, liveStreams, streamCount>>
    /\ UNCHANGED <<cacheVars, feedVars, locationVars, accountVars>>

\* handleProcess after its await, with the catch block without setIsLoading
handleProcessResume_StaysLoading(i, resp) ==
    /\ i \in DOMAIN analyses
    /\ analyses' = RemoveAt(analyses, i)
    /\ LET r == analyzeOfferImage(resp)
       IN  IF r.rejects
           THEN /\ error' = IF ~Mounted(analyses[i].instance) THEN error
                            ELSE IF r.isError THEN r.message ELSE ScanFailedUnknown
                /\ lastScan' = [event |-> "analysisFailed",
                                instance |-> analyses[i].instance,
                                calls |-> <<>>, result |-> r.message]
                /\ UNCHANGED <<scannerOpen, stream, liveStreams, isLoading>>
           ELSE /\ Unmount
                /\ lastScan' = [event |-> "analysisSucceeded",
                                instance |-> analyses[i].instance,
                                calls |-> <<"onScanComplete", "onClose">>,
                                result |-> r.value]
                /\ UNCHANGED <<error, isLoading>>
    /\ UNCHANGED <<instance, capturedImage, cameraRequests, reads, streamCount>>
    /\ UNCHANGED <<cacheVars, feedVars, locationVars, accountVars>>

\* handleProcess after its await (lines 105-115): on success onScanComplete,
\* which closes the scanner (OfferForm.tsx line 324), then onClose; on failure
\* the catch block
handleProcessResume(i, resp) ==
    /\ i \in DOMAIN analyses
    /\ analyses' = RemoveAt(analyses, i)
    /\ LET r == analyzeOfferImage(resp)
       IN  IF r.rejects
           THEN /\ error' = IF ~Mounted(analyses[i].instance) THEN error
                            ELSE IF r.isError THEN r.message ELSE ScanFailedUnknown
                /\ isLoading' = IF Mounted(analyses[i].instance) THEN FALSE
                                ELSE isLoading
                /\ lastScan' = [event |-> "analysisFailed",
                                instance |-> analyses[i].instance,
                                calls |-> <<>>, result |-> r.message]
                /\ UNCHANGED <<scannerOpen, stream, liveStreams>>
           ELSE /\ Unmount
                /\ lastScan' = [event |-> "analysisSucceeded",
                                instance |-> analyses[i].instance,
                                calls |-> <<"onScanComplete", "onClose">>,
                                result |-> r.value]
                /\ UNCHANGED <<error, isLoading>>
    /\ UNCHANGED <<instance, capturedImage, cameraRequests, reads, streamCount>>
    /\ UNCHANGED <<cacheVars, feedVars, locationVars, accountVars>>

\* The close button (line 146): onClose
closeScanner ==
    /\ scannerOpen
    /\ Unmount
    /\ lastScan' = [NoScan EXCEPT !.event = "closeScanner", !.instance = instance,
                                  !.calls = <<"onClose">>]
    /\ UNCHANGED <<instance, capturedImage, isLoading, error, cameraRequests, reads,
                   analyses, streamCount>>
    /\ UNCHANGED <<cacheVars, feedVars, locationVars, accountVars>>

NextScanner ==
    \/ openScanner
    \/ \E i \in 1..MaxPending, outcome \in CameraOutcomes : startCameraResume(i, outcome)
    \/ retryCamera
    \/ \E url \in ImageUrls : handleCapture(url)
    \/ handleFileSelect
    \/ \E i \in 1..MaxPending, url \in ImageUrls : readerOnload(i, url)
    \/ \E i \in 1..MaxPending : readerOnerror(i)
    \/ handleRetake
    \/ handleProcess
    \/ \E i \in 1..MaxPending, resp \in AnalysisResponses : handleProcessResume(i, resp)
    \/ closeScanner

ScannerInit ==
    ScannerClosed /\ CacheIdle /\ FeedUnmounted /\ LocationIdle /\ AccountIdle

SpecScanner == ScannerInit /\ [][NextScanner]_vars

-----------------------------------------------------------------------------
(* Properties of the scanner *)

\* C14: when the Scanner is torn down, by the close button or after a
\* successful scan, while its camera stream is active, the tracks of that
\* stream are stopped.
C14_TracksStoppedOnTeardown ==
    [][ (scannerOpen /\ ~scannerOpen' /\ stream # 0 /\ stream \in liveStreams)
            => stream \notin liveStreams' ]_vars

\* C15: when the analysis fails, analyzeOfferImage rejects with an Error that
\* carries one of its two messages, and handleProcess shows that message,
\* clears isLoading, keeps the captured image and calls neither onScanComplete
\* nor onClose; when it succeeds, handleProcess calls onScanComplete and then
\* onClose, and nothing else calls onScanComplete.
C15_FailedAnalysisKeepsScanner ==
    [][ /\ (lastScan'.event = "analysisFailed" /\ Mounted(lastScan'.instance)) =>
              /\ lastScan'.result \in {AnalysisFailed, AnalysisFailedUnknown}
              /\ error' = lastScan'.result
              /\ ~isLoading'
              /\ capturedImage' = capturedImage
              /\ scannerOpen'
              /\ lastScan'.calls = <<>>
        /\ lastScan'.event = "analysisSucceeded" =>
              lastScan'.calls = <<"onScanComplete", "onClose">>
        /\ lastScan'.event \notin {"analysisSucceeded", "closeScanner"} =>
              lastScan'.calls = <<>> ]_vars

\* A failed analysis has left the scanner open with its image and the message
C15_Witness ==
    /\ lastScan.event = "analysisFailed"
    /\ scannerOpen /\ instance = lastScan.instance
    /\ error = AnalysisFailed
    /\ capturedImage # Null
    /\ ~isLoading

-----------------------------------------------------------------------------
(* The account and the offers of App: App.tsx lines 109-207 and 276-332.     *)
(* A step is a handler followed by the renders and effects it causes.        *)
(* localStorage items of App are texts under their keys; they are apart from *)
(* the items of the cache, whose keys have another prefix.                   *)

\* JSON.stringify of a value with objects and arrays in it: properties whose
\* value is undefined are dropped at every level
RECURSIVE Stringified(_)
Stringified(v) ==
    IF v.t = "object"
    THEN Obj([f \in {g \in DOMAIN v.props : v.props[g].t # "undefined"}
                |-> Stringified(v.props[f])])
    ELSE IF v.t = "array"
    THEN Arr([i \in DOMAIN v.items |->
                IF v.items[i].t = "undefined" THEN Null
                ELSE Stringified(v.items[i])])
    ELSE v

\* localStorage.getItem: null for a missing key
getItem(its, key) == IF key \in DOMAIN its THEN its[key] ELSE Null

\* localStorage.setItem
setItem(its, key, text) ==
    [k \in DOMAIN its \cup {key} |-> IF k = key THEN text ELSE its[k]]

\* localStorage.removeItem
removeItem(its, key) == [k \in DOMAIN its \ {key} |-> its[k]]

CurrentUserKey == <<"c", "u", "r", "r", "e", "n", "t", "U", "s", "e", "r">>

\* Mutant: one key for the offers of all users
UserOffersKey_Shared(user) == <<"o", "f", "f", "e", "r", "s", "_">>

\* `offers_${currentUser.email}`
UserOffersKey(user) == <<"o", "f", "f", "e", "r", "s", "_">> \o Get(user, "email").s

\* `savedOffers_${currentUser.email}`
UserSavedOffersKey(user) ==
    <<"s", "a", "v", "e", "d", "O", "f", "f", "e", "r", "s", "_">> \o Get(user, "email").s

\* The state of App that the account concerns; threw: an exception left an
\* effect or a handler
AccountState ==
    [currentUser |-> currentUser, offers |-> offers, savedOfferIds |-> savedOfferIds,
     items |-> appItems, currentView |-> currentView, threw |-> FALSE]

\* new Set(iterable) of a parsed value: the elements of an array, nothing for
\* null; a number or an object is not iterable
CanMakeSet(v) == v.t \in {"array", "null", "undefined"}

SetOf(v) == IF v.t = "array" THEN {v.items[i] : i \in DOMAIN v.items} ELSE {}

\* The try block of the load effect (lines 171-176)
loadTry(cur) ==
    IF ~storageAvailable THEN [threw |-> TRUE, saved |-> {}, list |-> <<>>]
    ELSE LET savedOffersData == getItem(cur.items, UserSavedOffersKey(cur.currentUser))
             savedOffersList == getItem(cur.items, UserOffersKey(cur.currentUser))
             saved == IF savedOffersData = Null THEN [threw |-> FALSE, value |-> Arr(<<>>)]
                      ELSE JSONparse(savedOffersData)
             list == IF savedOffersList = Null THEN [threw |-> FALSE, value |-> Arr(<<>>)]
                     ELSE JSONparse(savedOffersList)
         IN  IF saved.threw \/ ~CanMakeSet(saved.value) \/ list.threw
             THEN [threw |-> TRUE, saved |-> {}, list |-> <<>>]
             ELSE [threw |-> FALSE, saved |-> SetOf(saved.value),
                   list |-> list.value.items]

\* The load effect without its catch block
loadEffect_NoCatch(mount, prev, cur, u) ==
    IF ~mount /\ cur.currentUser = prev.currentUser THEN u
    ELSE IF ~Truthy(cur.currentUser)
    THEN [u EXCEPT !.offers = <<>>, !.savedOfferIds = {}]
    ELSE IF loadTry(cur).threw
    THEN [u EXCEPT !.threw = TRUE]
    ELSE [u EXCEPT !.savedOfferIds = loadTry(cur).saved, !.offers = loadTry(cur).list]

\* The load effect (lines 162-185), which runs when currentUser has changed
loadEffect(mount, prev, cur, u) ==
    IF ~mount /\ cur.currentUser = prev.currentUser THEN u
    ELSE IF ~Truthy(cur.currentUser)
    THEN [u EXCEPT !.offers = <<>>, !.savedOfferIds = {}]
    ELSE IF loadTry(cur).threw
    THEN [u EXCEPT !.savedOfferIds = {}, !.offers = <<>>]
    ELSE [u EXCEPT !.savedOfferIds = loadTry(cur).saved, !.offers = loadTry(cur).list]

\* The effect that saves the offers (lines 188-196)
saveOffersEffect(mount, prev, cur, u) ==
    IF ~mount /\ <<cur.offers, cur.currentUser>> = <<prev.offers, prev.currentUser>>
    THEN u
    ELSE IF ~Truthy(cur.currentUser) \/ ~storageAvailable THEN u
    ELSE [u EXCEPT !.items = setItem(@, UserOffersKey(cur.currentUser),
                                     JsonText(Stringified(Arr(cur.offers))))]

\* Array.from(savedOfferIds): the ids in the order of their insertion, here
\* in some order
RECURSIVE ArrayFrom(_)
ArrayFrom(set) ==
    IF set = {} THEN <<>>
    ELSE LET x == CHOOSE y \in set : TRUE
         IN  <<x>> \o ArrayFrom(set \ {x})

\* The effect that saves the saved ids (lines 199-207)
saveSavedEffect(mount, prev, cur, u) ==
    IF ~mount /\ <<cur.savedOfferIds, cur.currentUser>>
                    = <<prev.savedOfferIds, prev.currentUser>>
    THEN u
    ELSE IF ~Truthy(cur.currentUser) \/ ~storageAvailable THEN u
    ELSE [u EXCEPT !.items = setItem(@, UserSavedOffersKey(cur.currentUser),
                                     JsonText(Arr(ArrayFrom(cur.savedOfferIds))))]

\* The session effect (lines 150-160), which runs on mount
sessionEffect(mount, cur, u) ==
    IF ~mount \/ ~storageAvailable THEN u
    ELSE LET savedUser == getItem(cur.items, CurrentUserKey)
         IN  IF savedUser = Null \/ JSONparse(savedUser).threw THEN u
             ELSE [u EXCEPT !.currentUser = JSONparse(savedUser).value]

\* The effects of one render, in the order of their declaration
AccountEffects(mount, prev, cur) ==
    LET u1 == sessionEffect(mount, cur, cur)
        u2 == loadEffect(mount, prev, cur, u1)
        u3 == saveOffersEffect(mount, prev, cur, u2)
    IN  saveSavedEffect(mount, prev, cur, u3)

\* Renders and effects until a render changes no state
RECURSIVE SettleAccount(_, _, _)
SettleAccount(mount, prev, cur) ==
    LET next == AccountEffects(mount, prev, cur)
    IN  IF next = cur THEN next ELSE SettleAccount(FALSE, cur, next)

\* App's state after useState (lines 109-113) with the items its in localStorage
Fresh(its) ==
    [currentUser |-> Null, offers |-> <<>>, savedOfferIds |-> {}, items |-> its,
     currentView |-> "FEED", threw |-> FALSE]

\* `offer-${Date.now()}`
OfferId(t) == Str(<<"o", "f", "f", "e", "r", "-">> \o IntToString(t))

\* new Date().toISOString(): a text of the instant, different for different
\* instants
toISOString(t) == Str(<<"T">> \o IntToString(t))

\* Mutant: the factor is 21
applicantCount_UpToTwenty(random) == (random * 21) \div 100

\* Math.floor(random * 20), for random in hundredths
applicantCount(random) == (random * 20) \div 100

\* The offer that addOffer builds (lines 323-328)
NewOffer(newOfferData, t, random) ==
    Obj([f \in DOMAIN newOfferData.props \cup {"id", "scannedAt", "applicantCount"} |->
            CASE f = "id" -> OfferId(t)
              [] f = "scannedAt" -> toISOString(t)
              [] f = "applicantCount" -> Num(applicantCount(random))
              [] OTHER -> newOfferData.props[f]])

-----------------------------------------------------------------------------
(* Inputs and steps of the account *)

Emails == {<<"a">>, <<"b">>}

UserOf(email) == Obj([email |-> Str(email)])

\* What OfferForm hands to addOffer when the user with this address has
\* filled it in: users give their own address as the contact of an offer, so
\* that an offer tells who created it
OfferDataOf(email) ==
    Obj([type |-> Str("product"), productName |-> Str(<<"B", "i", "k", "e">>),
         email |-> Str(email), expiresAt |-> Undefined])

\* What OfferForm can hand to addOffer in the present state
OfferData ==
    { OfferDataOf(IF currentUser = Null THEN <<"a">> ELSE Get(currentUser, "email").s) }

\* Math.random(), in hundredths: at least 0 and less than 1
MathRandom == {0, 99}

\* An offer that user a created in an earlier session
StoredOffer == NewOffer(OfferDataOf(<<"a">>), Start - 1, 0)

\* What an earlier session, or something else that writes to localStorage, may
\* have left under a key of user a: nothing, a text that is not JSON, a list
PriorTexts(valid) == {Null, NotJson, JsonText(valid)}

PriorItems ==
    { LET withList == IF list = Null THEN Empty
                      ELSE setItem(Empty, UserOffersKey(UserOf(<<"a">>)), list)
      IN  IF saved = Null THEN withList
          ELSE setItem(withList, UserSavedOffersKey(UserOf(<<"a">>)), saved) :
        list \in PriorTexts(Stringified(Arr(<<StoredOffer>>))),
        saved \in PriorTexts(Arr(<<Get(StoredOffer, "id")>>)) }

\* App is mounted in a browser whose localStorage holds items of earlier
\* sessions and no session
InitAccount ==
    /\ storageAvailable \in BOOLEAN
    /\ appItems \in PriorItems
    /\ currentUser = Null
    /\ offers = <<>>
    /\ savedOfferIds = {}
    /\ currentView = "FEED"
    /\ added = 0
    /\ lastApp = [event |-> "mount", threw |-> FALSE, loaded |-> Null, found |-> Null]
    /\ now = Start

\* The state s, set by a handler, is rendered; the renders and effects that
\* follow run, and the result becomes the state of App. loaded is the user
\* whose data the step has loaded, if any, and found the text that the step
\* found under the key of the offers of that user
AccountStep(event, mount, s) ==
    \E f \in {SettleAccount(mount, AccountState, s)} :
        /\ currentUser' = f.currentUser
        /\ offers' = f.offers
        /\ savedOfferIds' = f.savedOfferIds
        /\ appItems' = f.items
        /\ currentView' = f.currentView
        /\ lastApp' =
              LET loaded == IF f.currentUser # currentUser \/ mount
                            THEN f.currentUser ELSE Null
              IN  [event |-> event, threw |-> f.threw, loaded |-> loaded,
                   found |-> IF loaded = Null THEN Null
                             ELSE getItem(appItems, UserOffersKey(loaded))]
        /\ UNCHANGED <<today, searchQuery, activeFilter, filterCenterPoint, filteredOffers>>
        /\ UNCHANGED <<cache, store, storageAvailable, inflight, lastOp, setLog, lookup,
                       calls, ticks>>
        /\ UNCHANGED <<locationVars, scannerVars>>

\* handleLogin(email) (lines 276-285)
handleLogin(email) ==
    /\ currentUser = Null
    /\ UNCHANGED <<now, added>>
    /\ AccountStep("handleLogin", FALSE,
            [AccountState EXCEPT
                !.currentUser = UserOf(email),
                !.items = IF storageAvailable
                          THEN setItem(@, CurrentUserKey, JsonText(UserOf(email)))
                          ELSE @])

\* handleLogout (lines 287-296)
handleLogout ==
    /\ currentUser # Null
    /\ UNCHANGED <<now, added>>
    /\ AccountStep("handleLogout", FALSE,
            [AccountState EXCEPT
                !.currentUser = Null,
                !.items = IF storageAvailable THEN removeItem(@, CurrentUserKey) ELSE @,
                !.currentView = "FEED"])

\* The updater that toggleSaveOffer hands to setSavedOfferIds (lines 304-314)
toggled(prev, offerId) ==
    IF offerId \in prev THEN prev \ {offerId} ELSE prev \cup {offerId}

\* toggleSaveOffer(offerId) (lines 298-315)
toggleSaveOffer(offerId) ==
    /\ \E i \in DOMAIN offers : Get(offers[i], "id") = offerId
    /\ UNCHANGED <<now, added>>
    /\ AccountStep("toggleSaveOffer", FALSE,
            IF ~Truthy(currentUser)
            THEN [AccountState EXCEPT !.currentView = "PROFILE"]
            ELSE [AccountState EXCEPT !.savedOfferIds = toggled(@, offerId)])

\* addOffer(newOfferData) (lines 317-332)
addOffer(newOfferData, random) ==
    /\ added < MaxOffers
    /\ added' = IF Truthy(currentUser) THEN added + 1 ELSE added
    /\ UNCHANGED now
    /\ AccountStep("addOffer", FALSE,
            IF ~Truthy(currentUser)
            THEN [AccountState EXCEPT !.currentView = "PROFILE"]
            ELSE [AccountState EXCEPT
                    !.offers = <<NewOffer(newOfferData, now, random)>> \o @,
                    !.currentView = "FEED"])

\* The page is loaded again: App is mounted with its initial state
reload ==
    /\ UNCHANGED <<now, added>>
    /\ AccountStep("reload", TRUE, Fresh(appItems))

\* A millisecond passes
clockAdvances ==
    /\ now < Start + MaxClock
    /\ now' = now + 1
    /\ lastApp' = [event |-> "clock", threw |-> FALSE, loaded |-> Null, found |-> Null]
    /\ UNCHANGED <<currentUser, savedOfferIds, appItems, currentView, added>>
    /\ UNCHANGED feedVars
    /\ UNCHANGED <<cache, store, storageAvailable, inflight, lastOp, setLog, lookup,
                   calls, ticks>>
    /\ UNCHANGED <<locationVars, scannerVars>>

NextAccount ==
    \/ \E email \in Emails : handleLogin(email)
    \/ handleLogout
    \/ \E t \in (Start - 1)..(Start + MaxClock) : toggleSaveOffer(OfferId(t))
    \/ \E newOfferData \in OfferData, random \in MathRandom : addOffer(newOfferData, random)
    \/ reload
    \/ clockAdvances

AccountInit ==
    /\ InitAccount
    /\ cache = Empty /\ store = Empty /\ inflight = <<>> /\ lastOp = NoOp
    /\ setLog = Empty /\ lookup = "geocodeLocation" /\ calls = 0 /\ ticks = 0
    /\ today = [year |-> 2024, month |-> 6, day |-> 1]
    /\ searchQuery = <<>> /\ activeFilter = "all"
    /\ filterCenterPoint = Null /\ filteredOffers = <<>>
    /\ LocationIdle /\ ScannerClosed

SpecAccount == AccountInit /\ [][NextAccount]_vars

-----------------------------------------------------------------------------
(* Properties of the account *)

\* C16: after any sequence of addOffer calls, two of them at the same clock
\* millisecond included, and reloads, no two offers in the offers list of the
\* logged-in user have the same id.
C16_OfferIdsUnique ==
    currentUser # Null =>
        \A i, j \in DOMAIN offers :
            i # j => Get(offers[i], "id") # Get(offers[j], "id")

\* The text under a key of the user cannot be parsed, or localStorage throws
Unreadable(user) ==
    \/ ~storageAvailable
    \/ getItem(appItems, UserOffersKey(user)) = NotJson
    \/ getItem(appItems, UserSavedOffersKey(user)) = NotJson

\* C17: when the stored JSON of the offers or of the saved ids of the user
\* who is being loaded cannot be parsed, or reading the store throws, loading
\* completes without an exception and leaves offers = [] and savedOfferIds
\* empty.
C17_UnreadableDataLoadsEmpty ==
    [][ ( /\ lastApp'.loaded # Null
          /\ Unreadable(lastApp'.loaded) ) =>
            /\ ~lastApp'.threw
            /\ offers' = <<>>
            /\ savedOfferIds' = {} ]_vars

\* User a has logged in over a stored list that is not JSON
C17_Witness ==
    /\ lastApp.event = "handleLogin"
    /\ lastApp.loaded = UserOf(<<"a">>)
    /\ storageAvailable
    /\ lastApp.found = NotJson
    /\ ~lastApp.threw
    /\ offers = <<>> /\ savedOfferIds = {}

-----------------------------------------------------------------------------
(* Further properties of the cache *)

\* C24: entries are purged lazily only. An entry leaves a layer only in a
\* getFromCache of its own key at or after its expiry. The passing of time,
\* setInCache and getFromCache of a key add, change and remove no entry of
\* another key in either layer.
C24_LazyPurgeOnly ==
    [][ /\ \A k \in DOMAIN cache :
              /\ k \notin DOMAIN cache' =>
                    /\ IsCacheRead(lastOp') /\ lastOp'.key = k
                    /\ cache[k].expiry <= now
              /\ lastOp'.key # k =>
                    k \in DOMAIN cache' /\ cache'[k] = cache[k]
        /\ \A k \in DOMAIN cache' \ DOMAIN cache : lastOp'.key = k
        /\ \A ik \in DOMAIN store :
              /\ ik \notin DOMAIN store' =>
                    /\ IsCacheRead(lastOp') /\ ItemKey(lastOp'.key) = ik
                    /\ lastOp'.durableRead
                    /\ store[ik].json.props.expiry.n <= now
              /\ ItemKey(lastOp'.key) # ik =>
                    ik \in DOMAIN store' /\ store'[ik] = store[ik]
        /\ \A ik \in DOMAIN store' \ DOMAIN store : ItemKey(lastOp'.key) = ik
        /\ lastOp'.op = "tick" => cache' = cache /\ store' = store ]_vars

\* A read has purged the entry of its key, which this process had set in both
\* layers, while the item that an earlier session left for another key is
\* still stored, although it has expired
C24_Witness ==
    /\ IsCacheRead(lastOp)
    /\ lastOp.key \in DOMAIN setLog /\ setLog[lastOp.key].durableWritten
    /\ InNeitherLayer(cache, store, lastOp.key)
    /\ \E ik \in DOMAIN store :
          ik # ItemKey(lastOp.key) /\ store[ik].json.props.expiry.n < now

\* A lookup has come back from an external call that threw or answered with
\* something unparsable, or, for reverseGeocode and geocodeLocation, with
\* nothing usable
FailedLookup(op) ==
    /\ op.phase = "resume"
    /\ \/ op.resp = "failed"
       \/ op.op \in {"reverseGeocode", "geocodeLocation"} /\ op.ret = Null

\* C25: a lookup whose external call throws or answers with an unparsable
\* text, or that gets no usable result (geocodeLocation without numeric lat
\* and lng, reverseGeocode without a location name), leaves both layers as
\* they were; the next lookup of the same key, finding no unexpired entry,
\* calls the external service again.
C25_FailuresAreNotCached ==
    [][ /\ FailedLookup(lastOp') =>
              ~lastOp'.set /\ cache' = cache /\ store' = store
        /\ ( /\ FailedLookup(lastOp)
             /\ IsCacheRead(lastOp') /\ lastOp'.key = lastOp.key
             /\ ~UnexpiredEntry(lastOp.key) ) =>
              /\ lastOp'.external /\ lastOp'.outcome = "pending"
              /\ Len(inflight') = Len(inflight) + 1
              /\ inflight'[Len(inflight')].key = lastOp.key ]_vars

\* A geocodeLocation lookup has come back with coordinates that are not
\* numbers, after the only other lookup: no layer holds an entry
C25_Witness ==
    /\ lookup = "geocodeLocation"
    /\ FailedLookup(lastOp) /\ lastOp.resp = "malformed"
    /\ calls = 2 /\ inflight = <<>>
    /\ setLog = Empty
    /\ cache = Empty /\ store = Empty /\ storageAvailable

\* Where both layers hold an entry of a key, the in-memory one expires no
\* earlier than the durable one
MemoryOutlivesDurable ==
    \A k \in DOMAIN cache :
        ItemKey(k) \in DOMAIN store =>
            cache[k].expiry >= StoredEntry(store, k).expiry.n

\* getFromCache of a key whose in-memory entry has expired returns null
ExpiredInMemoryReadsAbsent ==
    ( /\ IsCacheRead(lastOp')
      /\ lastOp'.key \in DOMAIN cache
      /\ cache[lastOp'.key].expiry <= now ) =>
        lastOp'.got = Null /\ lastOp'.key \notin DOMAIN cache'

\* C26: in one process that is the only writer of the durable store, whatever
\* setInCache and getFromCache calls have been made, durable writes that fail
\* included: where both layers hold an entry of a key, the in-memory expiry is
\* at least the durable expiry; hence getFromCache of a key whose in-memory
\* entry has expired returns no value.
C26_MemoryExpiryAtLeastDurable ==
    []MemoryOutlivesDurable /\ [][ExpiredInMemoryReadsAbsent]_vars

\* Both layers hold an entry of a key, the durable one older: the durable
\* write of the later setInCache failed on a full store
C26_Witness ==
    \E k \in DOMAIN cache :
        /\ ItemKey(k) \in DOMAIN store
        /\ cache[k].expiry > StoredEntry(store, k).expiry.n
        /\ k \in DOMAIN setLog /\ ~setLog[k].durableWritten

-----------------------------------------------------------------------------
(* Further properties of the location field *)

\* The geocodeLocation lookups that are awaited, in the order of their calls
GeocodeLookups(aw) == SelectSeq(aw, LAMBDA a : a.op = "geocodeLocation")

\* The coordinates that geocodeLocation gives for a text
CoordsOf(text) == Obj([lat |-> Num(10000 * Len(text)), lng |-> Num(0)])

\* A selection starts geocodeLocation lookups for the selected text only
SelectionLooksUpOnlyItself ==
    [][ lastEvent'.event = "select" =>
          \A i \in (Len(GeocodeLookups(awaiting)) + 1)..Len(GeocodeLookups(awaiting')) :
              GeocodeLookups(awaiting')[i].arg = locationQuery' ]_vars

\* A selection itself leaves filterCenterPoint alone: the result for the
\* selected text comes later
SelectionLeavesCenter ==
    [][ lastEvent'.event = "select" => filterCenterPoint' = filterCenterPoint ]_vars

\* C21: when the user selects a suggestion s of the open dropdown, every
\* geocodeLocation lookup that the selection starts is for the text s, none for
\* the partial text typed before, and filterCenterPoint is set from nothing but
\* the geocode result of s.
C21_SelectionGeocodesOnlyItself ==
    SelectionLooksUpOnlyItself /\ SelectionLeavesCenter

\* C22: the responses of geocodeLocation are applied as they arrive, without a
\* fence: a response sets filterCenterPoint to its result whichever lookups
\* were called before or after it and whatever the field holds, so that the
\* response that arrives last wins, also when its call was the first.
C22_LastResponseWins ==
    [][ lastEvent'.settled # NothingSettled =>
          /\ filterCenterPoint' = lastEvent'.settled.result
          /\ \E i \in DOMAIN awaiting :
                /\ awaiting[i] = [op |-> "geocodeLocation", arg |-> lastEvent'.settled.arg]
                /\ awaiting' = RemoveAt(awaiting, i) ]_vars

\* filterCenterPoint holds the result for "rom" while the field holds "Rome",
\* the suggestion selected later. No position is known, so the field holds
\* Rome by a selection, which called geocodeLocation("Rome"); the debounced
\* geocode query is still empty, so no effect has called geocodeLocation("rom")
\* since: that lookup was awaited when the selection called the other, the
\* lookup of "Rome" has settled (nothing is awaited), and the response for
\* "rom" came last
C22_Witness ==
    /\ lastEvent.event = "resume"
    /\ lastEvent.settled = [arg |-> <<"r", "o", "m">>, result |-> CoordsOf(<<"r", "o", "m">>)]
    /\ awaiting = <<>>
    /\ locationQuery = Rome
    /\ userLocation = Null
    /\ debouncedGeocodeQuery = <<>>
    /\ filterCenterPoint = CoordsOf(<<"r", "o", "m">>)

\* Offers near the user, far away and without a location
SampleOffers == <<JobAcme, BikeTrek, LawnBob, BikePlain>>

\* C23: when geocodeLocation gives null for a location query that is not
\* blank, geocodeAndSetFilter sets filterCenterPoint to null, whatever the
\* center was, and the feed applies no proximity filter.
C23_NullResultClearsCenter ==
    [][ (lastEvent'.settled # NothingSettled /\ lastEvent'.settled.result = Null) =>
          /\ trim(lastEvent'.settled.arg) # <<>>
          /\ filterCenterPoint' = Null
          /\ proximityStage(SampleOffers, filterCenterPoint') = SampleOffers ]_vars

\* The position of the user was the center and the field held its city; Enter
\* was pressed, and the lookup gave null: no center is left
C23_Witness ==
    /\ lastEvent.event = "resume"
    /\ lastEvent.settled = [arg |-> Rome, result |-> Null]
    /\ Truthy(userLocation) /\ locationQuery = Rome
    /\ debouncedGeocodeQuery = Rome
    /\ filterCenterPoint = Null
    /\ proximityStage(SampleOffers, TheCenter) # SampleOffers

\* C29: after handleClearLocation the location field is empty and
\* filterCenterPoint is null, whether or not the position of the user is known.
C29_ClearSticks ==
    [][ lastEvent'.event = "clear" =>
          locationQuery' = <<>> /\ filterCenterPoint' = Null ]_vars

-----------------------------------------------------------------------------
(* Further properties of the account *)

\* The text is the JSON of a list
IsStoredList(text) ==
    text # Null /\ ~JSONparse(text).threw /\ JSONparse(text).value.t = "array"

StoredListSurvivesReadableLoad ==
    [][ ( /\ lastApp'.loaded # Null
          /\ storageAvailable
          /\ IsStoredList(lastApp'.found)
          /\ getItem(appItems, UserSavedOffersKey(lastApp'.loaded)) # NotJson ) =>
            /\ offers' = JSONparse(lastApp'.found).value.items
            /\ getItem(appItems', UserOffersKey(lastApp'.loaded)) = lastApp'.found ]_vars

\* The offers of a stored text; none when the text is absent or no list
StoredOffers(text) ==
    IF IsStoredList(text) THEN JSONparse(text).value.items ELSE <<>>

\* The ids of the offers of the session and of the offer that user a created
\* in an earlier session
IdsCreatedBy(email) ==
    {Get(offers[i], "id") : i \in DOMAIN offers}
        \cup {Get(StoredOffer, "id") : e \in {email} \cap {<<"a">>}}

\* Every offer of the list was created by the user with this address
AllCreatedBy(list, email) ==
    \A i \in DOMAIN list : Get(list[i], "email") = Str(email)

\* In no state is an offer of one user in the list stored for another user,
\* or in the offers of the session of another user; the saved ids of a
\* session are ids of offers of its user
UsersAreApart ==
    /\ \A email \in Emails :
          AllCreatedBy(StoredOffers(getItem(appItems, UserOffersKey(UserOf(email)))), email)
    /\ currentUser # Null =>
          /\ AllCreatedBy(offers, Get(currentUser, "email").s)
          /\ savedOfferIds \subseteq IdsCreatedBy(Get(currentUser, "email").s)

\* No step writes to the items of a user who is not the current user after
\* the step
WritesOnlyOwnItems ==
    \A email \in Emails :
        ( \/ getItem(appItems', UserOffersKey(UserOf(email)))
                # getItem(appItems, UserOffersKey(UserOf(email)))
          \/ getItem(appItems', UserSavedOffersKey(UserOf(email)))
                # getItem(appItems, UserSavedOffersKey(UserOf(email))) )
            => currentUser' = UserOf(email)

IsTail(old, list) ==
    /\ Len(old) <= Len(list)
    /\ SubSeq(list, Len(list) - Len(old) + 1, Len(list)) = old

\* addOffer of a logged-in user puts one offer in front of the others
AddOfferPrepends ==
    (lastApp'.event = "addOffer" /\ currentUser # Null) =>
        /\ Len(offers') = Len(offers) + 1
        /\ Tail(offers') = offers
        /\ Get(offers'[1], "applicantCount").t = "number"
        /\ Get(offers'[1], "applicantCount").n \in 0..19
        /\ savedOfferIds' = savedOfferIds

\* toggleSaveOffer changes the saved ids by the one id, and a second toggle
\* of that id would give the former set
ToggleChangesSavedIdsOnly ==
    lastApp'.event = "toggleSaveOffer" =>
        /\ offers' = offers
        /\ currentUser' = currentUser
        /\ \E i \in DOMAIN offers :
              /\ savedOfferIds' = toggled(savedOfferIds, Get(offers[i], "id"))
              /\ savedOfferIds' # savedOfferIds
              /\ toggled(savedOfferIds', Get(offers[i], "id")) = savedOfferIds

\* C30: offers do not change once created. addOffer prepends exactly one new
\* offer, whose applicantCount is in 0..19, and leaves every existing offer as
\* it was and in its place; toggleSaveOffer changes only the set of saved ids,
\* toggling an id twice gives the set back, and it never changes the offers;
\* neither of them removes or edits an offer of the logged-in user.
C30_OffersImmutable ==
    [][ /\ AddOfferPrepends
        /\ ToggleChangesSavedIdsOnly
        /\ lastApp'.event \in {"addOffer", "toggleSaveOffer"} => IsTail(offers, offers') ]_vars

\* A second offer has been added in front of the first, with the largest
\* applicantCount, while the first is saved
C30_Witness ==
    /\ lastApp.event = "addOffer"
    /\ currentUser # Null
    /\ Len(offers) = 2
    /\ Get(offers[1], "applicantCount") = Num(19)
    /\ Get(offers[2], "applicantCount") = Num(0)
    /\ savedOfferIds = {Get(offers[2], "id")}
    /\ Get(offers[1], "id") # Get(offers[2], "id")

=============================================================================
